---- MODULE Spec2Model ----
(***************************************************************************)
(* Retrieval-fusion and pairwise-reranking engine of the multi-cloud       *)
(* recommender (src/query_processing/retriever.py, reranker.py,            *)
(* pipeline.py, scorer.py, llm_client.py, config.py).                      *)
(*                                                                         *)
(* Conventions                                                             *)
(*  - Python lists are sequences; a Python index i is position i + 1.      *)
(*  - Text is a sequence of one-character strings, so that strip, upper,   *)
(*    lower and the tokenizer do real work.                                *)
(*  - A candidate is identified by a positive integer; the ground-truth    *)
(*    relevance order used by the sorting specification is the integer     *)
(*    order (1 is the most relevant).                                      *)
(*  - Fractions are records [n, d] with d > 0, compared by cross           *)
(*    multiplication.                                                      *)
(***************************************************************************)
EXTENDS Integers, Sequences, FiniteSets, TLC

VARIABLES
    \* ---- configuration (config.py, PipelineConfig) ----
    top_k_results,      \* PipelineConfig.top_k_results
    max_candidates,     \* RerankingConfig.max_candidates
    \* ---- LLMReranker ----
    num_passes,         \* LLMReranker.num_passes, fixed in __init__
    oracle_kind,        \* "free": any reply or failure; "truth": ground-truth comparator
    candidates,         \* the caller's list passed to rerank
    ranked_obj,         \* the list object the local ranked is bound to
    ranked,             \* working copy inside rerank
    pass_num,           \* outer loop variable
    pos_i,              \* inner loop variable i (Python index), 0 when the pass is over
    oracle_calls,       \* number of _compare_pair invocations of this rerank call
    last_cmp,           \* the last comparison made (or NoCmp)
    scored,             \* the list rerank returns
    rr_pc,              \* "idle", "pass", "score", "done", "raised"
    \* ---- HybridRetriever._reciprocal_rank_fusion ----
    fusion_top_k,       \* RetrievalConfig.fusion_top_k
    dense_results,      \* list of {id, score} from dense search, best first
    sparse_results,     \* list of {id, score} from sparse search, best first
    fused_scores,       \* the dict fused_scores, as (id, score) items in insertion order
    fused_results,      \* the list _reciprocal_rank_fusion returns
    fu_pc,              \* "idle", "done"
    \* ---- BM25Index ----
    documents,          \* dict doc_id -> tokens, as (id, tokens) items in insertion order
    doc_lengths,        \* dict doc_id -> number of tokens
    avg_doc_length,     \* the float sum of the lengths / N, see FloatDiv
    doc_freqs,          \* defaultdict term -> number of documents holding it
    inverted_index,     \* defaultdict term -> set of doc ids
    N,                  \* number of add_document calls
    hash_order,         \* term -> the order in which the posting set of the term iterates
    search_query,       \* the query of the last search
    search_top_k,       \* the top_k of the last search
    search_out,         \* what the last search did: [state, results]
    \* ---- HybridRetriever.__init__ / _build_bm25_index ----
    store_points,       \* the points of the vector-store collection, by ascending id
    scroll_offset,      \* the local offset of _build_bm25_index
    pages_done,         \* number of scroll calls that returned
    scroll_failed,      \* a scroll call raised
    bu_pc,              \* "none", "building", "ready", "failed"
    search_repeat,      \* the last call of search was made to repeat the one kept before it
    \* ---- HybridRetriever.retrieve ----
    rt_query,           \* requirements.expanded_query or requirements.raw_query
    requirements,       \* the provider and category lists of the requirements
    rt_pc,              \* "none", "dense", "sparse", "fuse", "fetch", "returned"
    rt_filters,         \* the local filters of retrieve
    dense_failed,       \* _dense_search caught an exception
    fetch_pos,          \* number of fused results _fetch_candidates has handled
    fetch_log,          \* what became of each of them: "found" or "skipped"
    retrieved,          \* the list candidates of _fetch_candidates
    \* ---- RecommendationPipeline.recommend ----
    rc_pc,              \* "none", "retrieve", "done"
    rc_top_k,           \* the argument top_k of the call, 0 for none
    calls_made,         \* number of recommend calls made on this pipeline
    rec_result,         \* the PipelineResult returned
    stages_run,         \* the later stages this call invoked: "reranker", "scorer"
    passes_run          \* the passes the rerank call of this recommend call made

rerankVars == <<num_passes, oracle_kind, candidates, ranked_obj, ranked, pass_num, pos_i,
                oracle_calls, last_cmp, scored, rr_pc>>
configVars == <<top_k_results, max_candidates, fusion_top_k>>
fusionVars == <<dense_results, sparse_results, fused_scores, fused_results, fu_pc>>
indexVars == <<documents, doc_lengths, avg_doc_length, doc_freqs, inverted_index, N>>
searchVars == <<hash_order, search_query, search_top_k, search_out, search_repeat>>
buildVars == <<store_points, scroll_offset, pages_done, scroll_failed, bu_pc>>
serveVars == <<rt_query, requirements, rt_pc, rt_filters, dense_failed, fetch_pos, fetch_log,
               retrieved, rc_pc, rc_top_k, calls_made, rec_result, stages_run, passes_run>>
nonRerankVars == <<fusionVars, indexVars, searchVars, buildVars>>
nonFusionVars == <<rerankVars, indexVars, searchVars, buildVars>>
nonIndexVars == <<configVars, rerankVars, fusionVars, buildVars>>
vars == <<configVars, rerankVars, fusionVars, indexVars, searchVars, buildVars, serveVars>>

-----------------------------------------------------------------------------
\* Bounds of the model.

\* longest candidate list whose every ordering is explored
MaxN == 4
\* length of the long candidate list of the sorting specification
BigN == 10
\* largest configured top_k_results
MaxTopK == 4
\* largest small value of max_candidates (the default is explored as well)
MaxCap == 3
\* number of distinct ids in the result lists given to rank fusion
MaxId == 4
\* longest result list given to rank fusion
MaxLen == 3
\* largest small value of fusion_top_k (the default is explored as well)
MaxFuseK == 3
\* largest number of documents added to a sparse index
MaxDocs == 3
\* largest number of documents added to a sparse index of long documents
MaxLongDocs == 7
\* the documents of such an index that may share words
MaxSharedDocs == 2
\* largest small value of the top_k of a search (the default is explored as well)
MaxSearchK == 1
\* points per page of the store's scroll (the code asks for 100)
ScrollLimit == 2
\* recommend calls made on one pipeline
MaxCalls == 2

-----------------------------------------------------------------------------
\* Program constants.

\* reranker.py:43  min(config.top_k_results, 3)
MaxPasses == 3
\* config.py:42  RerankingConfig.max_candidates
DefaultMaxCandidates == 20
\* reranker.py:162  score = 10.0 - (i * 9.0 / ...)
TopScore == 10
\* reranker.py:162
ScoreSpan == 9
\* retriever.py:314  k: int = 60
RRF_K == 60
\* retriever.py:21  k1: float = 1.5, as K1Num / K1Den
K1Num == 3
\* retriever.py:21
K1Den == 2
\* retriever.py:21  b: float = 0.75, as BNum / BDen
BNum == 3
\* retriever.py:21
BDen == 4
\* retriever.py:65  math.log, in units of 1 / IdfScale
IdfScale == 1000000
\* config.py:33  RetrievalConfig.sparse_top_k
DefaultSparseTopK == 30
\* retriever.py:67  top_k: int = 10
DefaultSearchTopK == 10
\* config.py:68  PipelineConfig.top_k_results
DefaultTopK == 5
\* config.py:34  RetrievalConfig.fusion_top_k
DefaultFusionTopK == 25

-----------------------------------------------------------------------------
\* Generic helpers.

Min(a, b) == IF a <= b THEN a ELSE b

Max(a, b) == IF a >= b THEN a ELSE b

\* Python s[:k] for k >= 0
Take(s, k) == SubSeq(s, 1, Min(k, Len(s)))

Range(s) == {s[j] : j \in 1..Len(s)}

\* all orderings of the set S
Perms(S) == {s \in [1..Cardinality(S) -> S] : \A a, b \in 1..Cardinality(S) : s[a] = s[b] => a = b}

Frac(n, d) == [n |-> n, d |-> d]

\* the digits of the significand of a Python float (binary64)
SigBits == 53

\* the digits of one limb of a significand in the products
LimbBits == (SigBits - 1) \div 4

FracEq(x, y) == x.n * y.d = y.n * x.d

FracLt(x, y) == x.n * y.d < y.n * x.d

FracAdd(x, y) == [n |-> x.n * y.d + y.n * x.d, d |-> x.d * y.d]

-----------------------------------------------------------------------------
\* Text: str.strip, str.upper, "in", startswith.

Whitespace == {" ", "\n"}

RECURSIVE LStrip(_)
LStrip(t) == IF t # <<>> /\ Head(t) \in Whitespace THEN LStrip(Tail(t)) ELSE t

RECURSIVE RStrip(_)
RStrip(t) == IF t # <<>> /\ t[Len(t)] \in Whitespace THEN RStrip(SubSeq(t, 1, Len(t) - 1)) ELSE t

Strip(t) == RStrip(LStrip(t))

UpperChar(c) == CASE c = "a" -> "A" [] c = "b" -> "B" [] c = "x" -> "X" [] OTHER -> c

Upper(t) == [j \in 1..Len(t) |-> UpperChar(t[j])]

Contains(t, c) == \E j \in 1..Len(t) : t[j] = c

StartsWith(t, c) == t # <<>> /\ t[1] = c

-----------------------------------------------------------------------------
\* The oracle: what the HTTP call behind LLMClient.generate can do.

\* reply texts the chat model may produce
ReplyTexts ==
    { <<>>, <<"A">>, <<"B">>, <<" ", "b", "\n">>, <<"x">>, <<"x", "B">>,
      <<"A", "B">>, <<"B", "A">>, <<"x", "A", "B">> }

HttpOutcomes ==
    [kind : {"ok"}, text : ReplyTexts]
      \cup {[kind |-> "timeout", text |-> <<>>], [kind |-> "error", text |-> <<>>]}

\* LLMClient.generate: the reply stripped; "" on a timeout or any other exception
Generate(outcome) ==
    IF outcome.kind = "ok"
    THEN [raised |-> FALSE, text |-> Strip(outcome.text)]
    ELSE [raised |-> FALSE, text |-> <<>>]

\* _compare_pair with the else branch answering "B"
ParseWinnerDefaultB(result) ==
    IF Contains(result, "A") /\ ~Contains(result, "B") THEN "A"
    ELSE IF Contains(result, "B") /\ ~Contains(result, "A") THEN "B"
    ELSE IF StartsWith(result, "A") THEN "A"
    ELSE "B"

\* the branches of _compare_pair on result = response.strip().upper()
ParseWinner(result) ==
    IF Contains(result, "A") /\ ~Contains(result, "B") THEN "A"
    ELSE IF Contains(result, "B") /\ ~Contains(result, "A") THEN "B"
    ELSE IF StartsWith(result, "A") THEN "A"
    ELSE IF StartsWith(result, "B") THEN "B"
    ELSE "A"

\* LLMReranker._compare_pair: try generate and parse; except Exception: return "A"
ComparePair(outcome) ==
    LET gen == Generate(outcome)
    IN  IF gen.raised
        THEN [raised |-> FALSE, winner |-> "A"]
        ELSE [raised |-> FALSE, winner |-> ParseWinner(Upper(Strip(gen.text)))]

\* the ground-truth comparator: B when the candidate at i is the more relevant
TruthOutcome(a, b) == [kind |-> "ok", text |-> IF b < a THEN <<"B">> ELSE <<"A">>]

\* the category of a candidate: the even ones are databases, the odd ones compute
Category(c) == IF c % 2 = 0 THEN "database" ELSE "compute"

\* the stub comparator that prefers a database to a compute service and has no other
\* preference: B when the candidate at i is a database and the one before it is not
CategoryOutcome(a, b) ==
    [kind |-> "ok",
     text |-> IF Category(b) = "database" /\ Category(a) = "compute" THEN <<"B">> ELSE <<"A">>]

OutcomesFor(kind, a, b) ==
    IF kind = "truth" THEN {TruthOutcome(a, b)}
    ELSE IF kind = "category" THEN {CategoryOutcome(a, b)}
    ELSE HttpOutcomes

-----------------------------------------------------------------------------
\* LLMReranker.

NoCmp == [a |-> 0, b |-> 0, at |-> 0, pass |-> 0, outcome |-> [kind |-> "none", text |-> <<>>],
          winner |-> "-", swapped |-> FALSE]

\* LLMReranker.__init__: num_passes
NumPasses(topk) == Min(topk, MaxPasses)

\* the cap left out: every candidate is ranked
CandidatesToRankAll(cands, cap) == cands

\* rerank: candidates_to_rank = candidates[:max_candidates]
CandidatesToRank(cands, cap) == Take(cands, cap)

\* the swap written as the single assignment ranked[i - 1] = ranked[i]
SwapAtLossy(r, i) == [r EXCEPT ![i] = r[i + 1]]

\* rerank: ranked[i - 1], ranked[i] = ranked[i], ranked[i - 1]   (i a Python index)
SwapAt(r, i) == [r EXCEPT ![i] = r[i + 1], ![i + 1] = r[i]]

\* The list objects of a rerank call: "arg" is the list the caller passed, whose
\* elements are the variable candidates; "slice" and "copy" are lists built by the call.

\* candidates[:n]: a slice of a list is a new list object
SliceObject(obj) == "slice"

\* list(x): a new list object with the elements of x
ListObject(obj) == "copy"

\* the working list bound to the list that was passed: ranked = candidates
RankedObjectShared(arg) == arg

\* rerank: candidates_to_rank = candidates[:max_candidates];
\* ranked = list(candidates_to_rank): the object the name ranked is bound to
RankedObject(arg) == ListObject(SliceObject(arg))

\* ranked[i - 1], ranked[i] = ...: the store goes into the object ranked is bound to.
\* The elements of the caller's list after it: those written, if that object is the
\* caller's list, else the ones it had
ArgAfterStore(obj, cands, written) ==
    IF obj = "arg" THEN written \o SubSeq(cands, Len(written) + 1, Len(cands)) ELSE cands

\* the test reversed: a swap when the oracle prefers the candidate already in front
SwapDecisionOnA(winner) == winner = "A"

\* rerank: if winner == "B"
SwapDecision(winner) == winner = "B"

\* the inner loop started one position early, range(len(ranked) - 2, 0, -1)
FirstIndexShort(r) == Max(Len(r) - 2, 0)

\* rerank: range(len(ranked) - 1, 0, -1) starts at len(ranked) - 1
FirstIndex(r) == Max(Len(r) - 1, 0)

\* the inner loop jumping from the back straight to the front
NextIndexToFront(i) == IF i > 1 THEN 1 ELSE 0

\* the inner loop stepping by -2
NextIndexSkip(i) == i - 2

\* rerank: range(len(ranked) - 1, 0, -1) steps by -1
NextIndex(i) == i - 1

\* the early return giving back nothing
TrivialScoresNone(cands) == <<>>

\* rerank: the early return for len(candidates) <= 1, scores 10.0 - i
TrivialScores(cands) ==
    [j \in 1..Len(cands) |-> [candidate |-> cands[j], score |-> Frac(TopScore - (j - 1), 1)]]

\* the scores spread over len(ranked) steps instead of len(ranked) - 1
PositionScoresByCount(r) ==
    LET den == Max(Len(r), 1)
    IN  [j \in 1..Len(r) |-> [candidate |-> r[j],
                              score |-> Frac(TopScore * den - (j - 1) * ScoreSpan, den)]]

\* rerank: score = 10.0 - (i * 9.0 / max(len(ranked) - 1, 1))
PositionScores(r) ==
    LET den == Max(Len(r) - 1, 1)
    IN  [j \in 1..Len(r) |-> [candidate |-> r[j],
                              score |-> Frac(TopScore * den - (j - 1) * ScoreSpan, den)]]

\* rerank: no pass on the early return, else for pass_num in range(self.num_passes)
PassesMade(cands, passes) == IF Len(cands) <= 1 THEN 0 ELSE Max(passes, 0)

\* the inner loop of rerank from index i down, with an oracle of one answer per pair
RECURSIVE RerankInner(_, _, _)
RerankInner(r, i, kind) ==
    IF i < 1 THEN r
    ELSE LET cmp == ComparePair(CHOOSE o \in OutcomesFor(kind, r[i], r[i + 1]) : TRUE)
         IN  RerankInner(IF ~cmp.raised /\ SwapDecision(cmp.winner) THEN SwapAt(r, i) ELSE r,
                         NextIndex(i), kind)

\* for pass_num in range(self.num_passes)
RECURSIVE RerankPasses(_, _, _)
RerankPasses(r, passes, kind) ==
    IF passes <= 0 THEN r
    ELSE RerankPasses(RerankInner(r, FirstIndex(r), kind), passes - 1, kind)

\* LLMReranker.rerank as one function of its input, for an oracle of one answer per pair
Rerank(cands, cap, passes, kind) ==
    IF Len(cands) <= 1 THEN TrivialScores(cands)
    ELSE PositionScores(RerankPasses(CandidatesToRank(cands, cap), passes, kind))

\* rerank, up to the first comparison: the early return, the cap, the working copy
RerankEnter ==
    /\ rr_pc = "idle"
    /\ IF Len(candidates) <= 1
       THEN /\ scored' = TrivialScores(candidates)
            /\ rr_pc' = "done"
            /\ UNCHANGED <<ranked_obj, ranked, pos_i>>
       ELSE /\ ranked_obj' = RankedObject("arg")
            /\ ranked' = CandidatesToRank(candidates, max_candidates)
            /\ pos_i' = FirstIndex(ranked')
            /\ rr_pc' = IF num_passes > 0 THEN "pass" ELSE "score"
            /\ UNCHANGED scored
    /\ pass_num' = 0
    /\ oracle_calls' = 0
    /\ last_cmp' = NoCmp
    /\ UNCHANGED <<num_passes, oracle_kind, candidates, configVars, serveVars, nonRerankVars>>

\* one iteration of the inner loop: compare ranked[i-1] with ranked[i], swap on "B";
\* an exception leaving _compare_pair would leave rerank too
RerankCompare ==
    /\ rr_pc = "pass"
    /\ pos_i >= 1
    /\ \E outcome \in OutcomesFor(oracle_kind, ranked[pos_i], ranked[pos_i + 1]) :
         LET cmp    == ComparePair(outcome)
             doSwap == ~cmp.raised /\ SwapDecision(cmp.winner)
         IN  /\ ranked' = IF doSwap THEN SwapAt(ranked, pos_i) ELSE ranked
             /\ last_cmp' = [a |-> ranked[pos_i], b |-> ranked[pos_i + 1], at |-> pos_i,
                             pass |-> pass_num, outcome |-> outcome,
                             winner |-> IF cmp.raised THEN "-" ELSE cmp.winner,
                             swapped |-> doSwap]
             /\ rr_pc' = IF cmp.raised THEN "raised" ELSE rr_pc
             /\ pos_i' = IF cmp.raised THEN pos_i ELSE NextIndex(pos_i)
    /\ candidates' = ArgAfterStore(ranked_obj, candidates, ranked')
    /\ oracle_calls' = oracle_calls + 1
    /\ UNCHANGED <<num_passes, oracle_kind, ranked_obj, pass_num, scored, configVars, serveVars, nonRerankVars>>

\* what becomes of a timeout or cancellation that arrives during a comparison: raised
\* as an Exception inside the try of generate or of _compare_pair it is absorbed and the
\* comparison answers "A"; raised as a BaseException (KeyboardInterrupt), or outside
\* those try blocks, it leaves rerank, which has no handler
CancelEffects == {"absorbed", "propagated"}

\* a pipeline-level timeout or cancellation arriving in the middle of a pass
RerankCancel ==
    /\ rr_pc = "pass"
    /\ pos_i >= 1
    /\ \E effect \in CancelEffects :
         /\ last_cmp' = [a |-> ranked[pos_i], b |-> ranked[pos_i + 1], at |-> pos_i,
                         pass |-> pass_num, outcome |-> [kind |-> "cancel", text |-> <<>>],
                         winner |-> IF effect = "absorbed" THEN "A" ELSE "-",
                         swapped |-> FALSE]
         /\ rr_pc' = IF effect = "absorbed" THEN rr_pc ELSE "raised"
         /\ pos_i' = IF effect = "absorbed" THEN NextIndex(pos_i) ELSE pos_i
    /\ oracle_calls' = oracle_calls + 1
    /\ UNCHANGED <<num_passes, oracle_kind, candidates, ranked_obj, ranked, pass_num, scored, configVars,
                   serveVars, nonRerankVars>>

\* the end of one pass of the outer loop
RerankPassEnd ==
    /\ rr_pc = "pass"
    /\ pos_i < 1
    /\ pass_num' = pass_num + 1
    /\ IF pass_num + 1 < num_passes
       THEN /\ pos_i' = FirstIndex(ranked)
            /\ rr_pc' = "pass"
       ELSE /\ pos_i' = 0
            /\ rr_pc' = "score"
    /\ UNCHANGED <<num_passes, oracle_kind, candidates, ranked_obj, ranked, oracle_calls, last_cmp,
                   scored, configVars, serveVars, nonRerankVars>>

\* the conversion to ScoredCandidate and the return
RerankFinish ==
    /\ rr_pc = "score"
    /\ scored' = PositionScores(ranked)
    /\ rr_pc' = "done"
    /\ UNCHANGED <<num_passes, oracle_kind, candidates, ranked_obj, ranked, pass_num, pos_i,
                   oracle_calls, last_cmp, configVars, serveVars, nonRerankVars>>

-----------------------------------------------------------------------------
\* HybridRetriever._reciprocal_rank_fusion.

\* the string form of a point id, str(r.id) and str(point.id)
IdStr(j) == ToString(j)

\* the keys of a list of {id, ...} items
Ids(items) == {items[j].id : j \in 1..Len(items)}

\* a contribution weighted by the raw score of the result
ContributionFromScore(result, rank) == Frac(result.score, RRF_K + rank)

\* 1.0 / (k + rank) for the result at the 1-based position rank
Contribution(result, rank) == Frac(1, RRF_K + rank)

\* the dict update written as an assignment, fused_scores[doc_id] = ...
DictSet(acc, id, x) ==
    IF id \in Ids(acc)
    THEN [j \in 1..Len(acc) |-> IF acc[j].id = id THEN [id |-> id, score |-> x] ELSE acc[j]]
    ELSE Append(acc, [id |-> id, score |-> x])

\* fused_scores[doc_id] += x on a defaultdict(float): a new key starts at 0.0 and goes last
DictAdd(acc, id, x) ==
    IF id \in Ids(acc)
    THEN [j \in 1..Len(acc) |->
            IF acc[j].id = id THEN [id |-> id, score |-> FracAdd(acc[j].score, x)] ELSE acc[j]]
    ELSE Append(acc, [id |-> id, score |-> FracAdd(Frac(0, 1), x)])

\* for rank, result in enumerate(results, 1): fused_scores[result['id']] += ...
RECURSIVE Accumulate(_, _, _)
Accumulate(acc, results, rank) ==
    IF rank > Len(results)
    THEN acc
    ELSE Accumulate(DictAdd(acc, results[rank].id, Contribution(results[rank], rank)),
                    results, rank + 1)

\* insertion that puts an item before the items of equal score
InsertDescBeforeTies(sorted, x) ==
    LET p == Cardinality({j \in 1..Len(sorted) : FracLt(x.score, sorted[j].score)})
    IN  SubSeq(sorted, 1, p) \o <<x>> \o SubSeq(sorted, p + 1, Len(sorted))

\* insertion for an ascending sort (reverse=True left out)
InsertAsc(sorted, x) ==
    LET p == Cardinality({j \in 1..Len(sorted) : ~FracLt(x.score, sorted[j].score)})
    IN  SubSeq(sorted, 1, p) \o <<x>> \o SubSeq(sorted, p + 1, Len(sorted))

\* one step of the stable descending sort: x goes after every item whose score is not
\* smaller than its own
InsertDesc(sorted, x) ==
    LET p == Cardinality({j \in 1..Len(sorted) : ~FracLt(sorted[j].score, x.score)})
    IN  SubSeq(sorted, 1, p) \o <<x>> \o SubSeq(sorted, p + 1, Len(sorted))

\* sorted(items, key=score, reverse=True): stable, equal scores keep their order
RECURSIVE SortDescFrom(_, _, _)
SortDescFrom(sorted, items, j) ==
    IF j > Len(items) THEN sorted ELSE SortDescFrom(InsertDesc(sorted, items[j]), items, j + 1)

SortDesc(items) == SortDescFrom(<<>>, items, 1)

\* the dict after the dense loop and the sparse loop
FusedScores(dense, sparse) == Accumulate(Accumulate(<<>>, dense, 1), sparse, 1)

\* _reciprocal_rank_fusion: accumulate, sort, cut to fusion_top_k
ReciprocalRankFusion ==
    /\ fu_pc = "idle"
    /\ fused_scores' = FusedScores(dense_results, sparse_results)
    /\ fused_results' = Take(SortDesc(fused_scores'), fusion_top_k)
    /\ fu_pc' = "done"
    /\ UNCHANGED <<dense_results, sparse_results, configVars, serveVars, nonFusionVars>>

\* a result list as a search returns it: distinct ids, raw scores not increasing; the
\* scores are all equal ("flat") or fall with the rank ("steep")
ResultList(ids, profile) ==
    [j \in 1..Len(ids) |->
        [id |-> IdStr(ids[j]),
         score |-> IF profile = "flat" THEN 1 ELSE 2 * (Len(ids) - j) + 3]]

IdLists == UNION {Perms(S) : S \in {T \in SUBSET (1..MaxId) : Cardinality(T) <= MaxLen}}

\* one list with flat raw scores and the other with falling ones
ResultListPairs ==
    {<<ResultList(d, profile), ResultList(s, IF profile = "flat" THEN "steep" ELSE "flat")>> :
        d \in IdLists, s \in IdLists, profile \in {"flat", "steep"}}

FusionIdle ==
    /\ dense_results = <<>>
    /\ sparse_results = <<>>
    /\ fused_scores = <<>>
    /\ fused_results = <<>>
    /\ fu_pc = "idle"

-----------------------------------------------------------------------------
\* BM25Index.

LowerChar(c) == CASE c = "A" -> "a" [] c = "B" -> "b" [] c = "X" -> "x" [] OTHER -> c

\* str.lower
Lower(t) == [j \in 1..Len(t) |-> LowerChar(t[j])]

\* the characters the pattern \w matches, among those of the texts used here
IsWordChar(c) == c \notin {" ", "\n", "-", "."}

\* re.findall(r'\b\w+\b', text): the maximal runs of word characters, left to right
RECURSIVE FindWords(_, _, _, _)
FindWords(t, j, cur, out) ==
    IF j > Len(t)
    THEN IF cur = <<>> THEN out ELSE Append(out, cur)
    ELSE IF IsWordChar(t[j])
         THEN FindWords(t, j + 1, Append(cur, t[j]), out)
         ELSE FindWords(t, j + 1, <<>>, IF cur = <<>> THEN out ELSE Append(out, cur))

\* BM25Index._tokenize
Tokenize(text) == FindWords(Lower(text), 1, <<>>, <<>>)

\* list.count
Count(tokens, tok) == Cardinality({j \in 1..Len(tokens) : tokens[j] = tok})

\* dict[key] = value on a dict kept as items in insertion order
DictPut(items, key, value) ==
    IF \E j \in 1..Len(items) : items[j].id = key
    THEN [j \in 1..Len(items) |->
            IF items[j].id = key THEN [id |-> key, tokens |-> value] ELSE items[j]]
    ELSE Append(items, [id |-> key, tokens |-> value])

\* self.documents[doc_id]
TokensOf(ix, id) ==
    ix.documents[CHOOSE j \in 1..Len(ix.documents) : ix.documents[j].id = id].tokens

\* sum(self.doc_lengths.values())
RECURSIVE SumValues(_, _)
SumValues(f, keys) ==
    IF keys = {} THEN 0
    ELSE LET k == CHOOSE x \in keys : TRUE IN f[k] + SumValues(f, keys \ {k})

\* ---- the float of a true division of two ints ----

\* n / d brought into [1, 2) by doubling one of the two: 2^exp * (n / d) is the quotient
RECURSIVE Normalised(_, _, _)
Normalised(n, d, exp) ==
    IF n < d THEN Normalised(2 * n, d, exp - 1)
    ELSE IF n >= 2 * d THEN Normalised(n, 2 * d, exp + 1)
    ELSE [n |-> n, d |-> d, exp |-> exp]

\* the last LimbBits binary digits of an int v >= 0
LimbDigits(v) == [j \in 1..LimbBits |-> (v \div 2^(LimbBits - j)) % 2]

\* the next LimbBits binary digits of r / d, r < d < 2^17, and what is left of r
QuotientLimb(r, d) ==
    [bits |-> LimbDigits((r * 2^LimbBits) \div d), rem |-> (r * 2^LimbBits) % d]

\* a significand plus one unit in its last place; carry: it was all ones
BitsPlusOne(bits) ==
    LET zeros == {j \in 1..Len(bits) : bits[j] = 0}
    IN  IF zeros = {}
        THEN [bits |-> [j \in 1..Len(bits) |-> 0], carry |-> 1]
        ELSE LET z == CHOOSE j \in zeros : \A i \in zeros : i <= j
             IN  [bits |-> [j \in 1..Len(bits) |->
                              IF j < z THEN bits[j] ELSE IF j = z THEN 1 ELSE 0],
                  carry |-> 0]

\* +0.0
Binary64Zero == [exp |-> 0, sig |-> [j \in 1..SigBits |-> 0]]

\* the float after a positive float x
Binary64After(x) ==
    LET up == BitsPlusOne(x.sig)
    IN  IF up.carry = 1
        THEN [exp |-> x.exp + 1, sig |-> [j \in 1..SigBits |-> IF j = 1 THEN 1 ELSE 0]]
        ELSE [exp |-> x.exp, sig |-> up.bits]

\* round to nearest, ties to even: sig cut at SigBits digits, above tells that what was
\* cut is more than half a unit in the last place, half that it is exactly half
Binary64Rounded(exp, sig, above, half) ==
    LET x == [exp |-> exp, sig |-> sig]
    IN  IF above \/ (half /\ sig[SigBits] = 1) THEN Binary64After(x) ELSE x

\* float(n) / float(d) for ints 0 <= n, 0 < d, both below 2^16: the quotient rounded
\* once. A float is its exponent and the SigBits digits of its significand, the leading
\* one first and four limbs after it
Binary64Div(n, d) ==
    IF n = 0 THEN Binary64Zero
    ELSE LET s  == Normalised(n, d, 0)
             q1 == QuotientLimb(s.n - s.d, s.d)
             q2 == QuotientLimb(q1.rem, s.d)
             q3 == QuotientLimb(q2.rem, s.d)
             q4 == QuotientLimb(q3.rem, s.d)
         IN  Binary64Rounded(s.exp, <<1>> \o q1.bits \o q2.bits \o q3.bits \o q4.bits,
                             2 * q4.rem > s.d, 2 * q4.rem = s.d)

\* the binary digits of an int v >= 0, none for 0
RECURSIVE IntBits(_)
IntBits(v) == IF v = 0 THEN <<>> ELSE Append(IntBits(v \div 2), v % 2)

\* the int a run of binary digits writes
RECURSIVE BitsValue(_)
BitsValue(bits) ==
    IF bits = <<>> THEN 0
    ELSE 2 * BitsValue(SubSeq(bits, 1, Len(bits) - 1)) + bits[Len(bits)]

\* the int of the limb of a significand that ends at its digit j
LimbValue(bits, j) == BitsValue(SubSeq(bits, j - LimbBits + 1, j))

\* the digits of bits * k, for SigBits digits and 0 < k < 2^16: the product is made
\* limb by limb from the last one
TimesBits(bits, k) ==
    LET p4 == LimbValue(bits, SigBits) * k
        p3 == LimbValue(bits, SigBits - LimbBits) * k + (p4 \div 2^LimbBits)
        p2 == LimbValue(bits, SigBits - 2 * LimbBits) * k + (p3 \div 2^LimbBits)
        p1 == LimbValue(bits, SigBits - 3 * LimbBits) * k + (p2 \div 2^LimbBits)
        p0 == bits[1] * k + (p1 \div 2^LimbBits)
    IN  IntBits(p0) \o LimbDigits(p1) \o LimbDigits(p2) \o LimbDigits(p3) \o LimbDigits(p4)

\* x * k for a float x >= 0 and an int k >= 0 (k is converted to float exactly): the
\* product rounded once
Binary64Times(x, k) ==
    IF x = Binary64Zero \/ k = 0 THEN Binary64Zero
    ELSE LET p    == TimesBits(x.sig, k)
             more == Len(p) - SigBits
             cut  == SubSeq(p, SigBits + 1, Len(p))
             rest == \E j \in 2..Len(cut) : cut[j] = 1
         IN  IF more = 0 THEN x
             ELSE Binary64Rounded(x.exp + more, SubSeq(p, 1, SigBits),
                                  cut[1] = 1 /\ rest, cut[1] = 1 /\ ~rest)

\* the float n / d of ints: its value, and the two ints it was rounded from, from which
\* the scores are computed
FloatDiv(n, d) == [n |-> n, d |-> d, value |-> Binary64Div(n, d)]

\* the average kept at its initial value, never recomputed
AvgDocLengthStale(lengths, n) == FloatDiv(0, 1)

\* floor division in place of the true one: sum(...) // self.N
AvgDocLengthFloored(lengths, n) == FloatDiv(SumValues(lengths, DOMAIN lengths) \div n, 1)

\* sum(self.doc_lengths.values()) / self.N
AvgDocLength(lengths, n) == FloatDiv(SumValues(lengths, DOMAIN lengths), n)

\* BM25Index.__init__
EmptyIndex ==
    [documents |-> <<>>, doc_lengths |-> <<>>, avg_doc_length |-> FloatDiv(0, 1),
     doc_freqs |-> <<>>, inverted_index |-> <<>>, N |-> 0]

\* set(tokens)
UniqueTokens(tokens) == Range(tokens)

\* BM25Index.add_document
AddDoc(ix, doc_id, text) ==
    LET tokens  == Tokenize(text)
        unique  == UniqueTokens(tokens)
        terms   == DOMAIN ix.doc_freqs \cup unique
        lengths == [d \in DOMAIN ix.doc_lengths \cup {doc_id} |->
                        IF d = doc_id THEN Len(tokens) ELSE ix.doc_lengths[d]]
    IN  [documents |-> DictPut(ix.documents, doc_id, tokens),
         doc_lengths |-> lengths,
         doc_freqs |-> [t \in terms |->
                          (IF t \in DOMAIN ix.doc_freqs THEN ix.doc_freqs[t] ELSE 0)
                            + (IF t \in unique THEN 1 ELSE 0)],
         inverted_index |-> [t \in terms |->
                          (IF t \in DOMAIN ix.inverted_index THEN ix.inverted_index[t] ELSE {})
                            \cup (IF t \in unique THEN {doc_id} ELSE {})],
         N |-> ix.N + 1,
         avg_doc_length |-> AvgDocLength(lengths, ix.N + 1)]

\* round(IdfScale * ln((n - df + 0.5) / (df + 0.5) + 1)) for 1 <= df <= n <= 6
IdfTable ==
    << <<287682>>,
       <<693147, 182322>>,
       <<980829, 470004, 133531>>,
       <<1203973, 693147, 356675, 105361>>,
       <<1386294, 875469, 538997, 287682, 87011>>,
       <<1540445, 1029619, 693147, 441833, 241162, 74108>> >>

\* BM25Index._idf, in units of 1 / IdfScale
Idf(ix, term) ==
    LET df == IF term \in DOMAIN ix.doc_freqs THEN ix.doc_freqs[term] ELSE 0
    IN  IF df = 0 THEN 0 ELSE IdfTable[ix.N][df]

\* whether the document holds the token, instead of how often
TermFrequencyBinary(tokens, token) == IF Count(tokens, token) > 0 THEN 1 ELSE 0

\* tf = doc_tokens.count(token)
TermFrequency(tokens, token) == Count(tokens, token)

\* floor(x * num / den) without leaving 32 bits
MulDiv(x, num, den) == (x \div den) * num + ((x % den) * num) \div den

\* idf * numerator / denominator of search for one document, in units of 1 / IdfScale:
\*   numerator   = tf * (k1 + 1)
\*   denominator = tf + k1 * (1 - b + b * doc_len / avg_doc_length)
\* both multiplied by K1Den * BDen * avg.n; the division by avg_doc_length raises
\* ZeroDivisionError when the average is 0
TermScore(ix, idf, token, doc_id) ==
    LET tf  == TermFrequency(TokensOf(ix, doc_id), token)
        dl  == ix.doc_lengths[doc_id]
        avg == ix.avg_doc_length
        num == tf * (K1Num + K1Den) * BDen * avg.n
        den == tf * K1Den * BDen * avg.n + K1Num * ((BDen - BNum) * avg.n + BNum * dl * avg.d)
    IN  IF avg.n = 0
        THEN [raised |-> TRUE, value |-> 0]
        ELSE [raised |-> FALSE, value |-> MulDiv(idf, num, den)]

\* scores[doc_id] += x on a defaultdict(float)
ScoreAdd(items, id, x) ==
    IF \E j \in 1..Len(items) : items[j].id = id
    THEN [j \in 1..Len(items) |->
            IF items[j].id = id THEN [id |-> id, score |-> items[j].score + x] ELSE items[j]]
    ELSE Append(items, [id |-> id, score |-> x])

\* for doc_id in self.inverted_index[token]: the ids of the posting set of the token in
\* the order the set iterates them
PostingOrder(order, token) == IF token \in DOMAIN order THEN order[token] ELSE <<>>

\* the orders in which a set of str ids that holds the ids of S can iterate, when it
\* iterated as seq before the last ones were added: the order follows the slots of the
\* set's own hash table, which the hash seed of the process and the history of the set
\* decide; an id added falls anywhere among the ids already there, and these keep their
\* slots (a set of fewer than five ids is not rebuilt), so an unchanged set iterates
\* as it did before
SetOrdersAfter(seq, S) ==
    {p \in Perms(S) : SelectSeq(p, LAMBDA x : x \in Range(seq)) = seq}

\* the iteration orders the posting sets of the terms todo can have when they are the
\* sets inv and iterated as order says before, each set its own
RECURSIVE PostingOrdersOf(_, _, _)
PostingOrdersOf(order, inv, todo) ==
    IF todo = {} THEN {order}
    ELSE LET t == CHOOSE x \in todo : TRUE
         IN  {[k \in DOMAIN f \cup {t} |-> IF k = t THEN p ELSE f[k]] :
                 f \in PostingOrdersOf(order, inv, todo \ {t}),
                 p \in SetOrdersAfter(PostingOrder(order, t), inv[t])}

\* self.inverted_index[token].add(doc_id): the iteration orders of the posting sets
\* once documents were added and the sets are those of inv
PostingOrders(order, inv) == PostingOrdersOf(order, inv, DOMAIN inv)

\* for doc_id in self.inverted_index[token]: ... scores[doc_id] += ...
RECURSIVE ScoreDocs(_, _, _, _, _)
ScoreDocs(ix, idf, token, docs, acc) ==
    IF docs = <<>> \/ acc.raised THEN acc
    ELSE LET t == TermScore(ix, idf, token, Head(docs))
         IN  IF t.raised
             THEN [raised |-> TRUE, scores |-> acc.scores]
             ELSE ScoreDocs(ix, idf, token, Tail(docs),
                            [raised |-> FALSE, scores |-> ScoreAdd(acc.scores, Head(docs), t.value)])

\* for token in query_tokens: skip a token that is no key of the inverted index
RECURSIVE ScoreTokens(_, _, _, _)
ScoreTokens(ix, order, qtokens, acc) ==
    IF qtokens = <<>> \/ acc.raised THEN acc
    ELSE IF Head(qtokens) \notin DOMAIN ix.inverted_index
         THEN ScoreTokens(ix, order, Tail(qtokens), acc)
         ELSE ScoreTokens(ix, order, Tail(qtokens),
                          ScoreDocs(ix, Idf(ix, Head(qtokens)), Head(qtokens),
                                    PostingOrder(order, Head(qtokens)), acc))

\* one step of the stable descending sort of (doc_id, score) items
InsertByScore(sorted, x) ==
    LET p == Cardinality({j \in 1..Len(sorted) : sorted[j].score >= x.score})
    IN  SubSeq(sorted, 1, p) \o <<x>> \o SubSeq(sorted, p + 1, Len(sorted))

\* sorted(scores.items(), key=lambda x: x[1], reverse=True)
RECURSIVE SortByScore(_, _)
SortByScore(sorted, items) ==
    IF items = <<>> THEN sorted ELSE SortByScore(InsertByScore(sorted, Head(items)), Tail(items))

\* scores = defaultdict(float), a local of the call
InitialScores == <<>>

\* BM25Index.search
Search(ix, order, query, top_k) ==
    LET acc == ScoreTokens(ix, order, Tokenize(query), [raised |-> FALSE, scores |-> InitialScores])
    IN  IF acc.raised
        THEN [state |-> "raised", results |-> <<>>]
        ELSE [state |-> "returned", results |-> Take(SortByScore(<<>>, acc.scores), top_k)]

\* d[key] on a defaultdict: a missing key is inserted with the default value
DefaultGet(d, key, default) ==
    IF key \in DOMAIN d THEN d ELSE [k \in DOMAIN d \cup {key} |-> IF k = key THEN default ELSE d[k]]

\* the posting set read without the membership test
ReadPostingsUnguarded(ix, token) ==
    [ix EXCEPT !.inverted_index = DefaultGet(ix.inverted_index, token, {})]

\* as if the postings were taken out of the index by the read:
\*   for doc_id in self.inverted_index.pop(token): ...
ReadPostingsPopped(ix, token) ==
    IF token \notin DOMAIN ix.inverted_index
    THEN ix
    ELSE [ix EXCEPT !.inverted_index =
              [t \in DOMAIN ix.inverted_index \ {token} |-> ix.inverted_index[t]]]

\* what reading a query token's postings leaves in the index:
\*   if token not in self.inverted_index: continue
\*   idf = self._idf(token)             (doc_freqs.get, no insertion)
\*   for doc_id in self.inverted_index[token]: ...
ReadPostings(ix, token) ==
    IF token \notin DOMAIN ix.inverted_index
    THEN ix
    ELSE [ix EXCEPT !.inverted_index = DefaultGet(ix.inverted_index, token, {})]

\* the index as search leaves it
RECURSIVE IndexAfterSearch(_, _)
IndexAfterSearch(ix, qtokens) ==
    IF qtokens = <<>> THEN ix
    ELSE IndexAfterSearch(ReadPostings(ix, Head(qtokens)), Tail(qtokens))

\* the index object as one value
Index ==
    [documents |-> documents, doc_lengths |-> doc_lengths, avg_doc_length |-> avg_doc_length,
     doc_freqs |-> doc_freqs, inverted_index |-> inverted_index, N |-> N]

SetIndex(ix) ==
    /\ documents' = ix.documents
    /\ doc_lengths' = ix.doc_lengths
    /\ avg_doc_length' = ix.avg_doc_length
    /\ doc_freqs' = ix.doc_freqs
    /\ inverted_index' = ix.inverted_index
    /\ N' = ix.N

NoSearch == [state |-> "none", results |-> <<>>]

\* texts of documents: no token, one token, a repeated token, two tokens, and the
\* two tokens with the first repeated
DocTexts == { <<"-">>, <<"a">>, <<"a", " ", "a">>, <<"A", "-", "b">>, <<"a", " ", "b", " ", "a">> }

\* texts of queries: empty, one token, two tokens, a token no document holds
QueryTexts == { <<>>, <<"A">>, <<"b", " ", "a">>, <<"x">> }

\* the id a caller gives the next document: a fresh one. Ids are never compared
\* by the index, and a posting set may iterate its ids in any order, so the order in
\* which a set yields documents is independent of the order they were added in
NextDocIds(limit) ==
    LET used   == {documents[j].id : j \in 1..Len(documents)}
        unused == {j \in 1..limit : IdStr(j) \notin used}
    IN  {IdStr(j) : j \in {u \in unused : \A v \in unused : u <= v}}

\* a call of add_document with an id not yet in the index, on an index of fewer than
\* limit documents, with one of the texts that texts holds for the id
AddDocumentOf(limit, texts) ==
    /\ N < limit
    /\ \E doc_id \in NextDocIds(limit) :
          \E text \in texts[doc_id] :
             /\ SetIndex(AddDoc(Index, doc_id, text))
             /\ hash_order' \in PostingOrders(hash_order, AddDoc(Index, doc_id, text).inverted_index)
    /\ search_query' = <<>>
    /\ search_top_k' = 0
    /\ search_out' = NoSearch
    /\ search_repeat' = FALSE
    /\ UNCHANGED <<serveVars, nonIndexVars>>

\* the ids the documents of an index of limit documents get
DocIds(limit) == {IdStr(j) : j \in 1..limit}

AnyDocText == [doc_id \in DocIds(MaxDocs) |-> DocTexts]

AddDocument == AddDocumentOf(MaxDocs, AnyDocText)

\* the orders the posting sets yield their ids in after a search that found the
\* posting sets before and left the posting sets after: a set iterates in the order it
\* had as long as nothing is added to it or taken from it
OrdersAfterSearch(order, before, after) ==
    IF after = before THEN {order} ELSE PostingOrders(order, after)

\* a call of search. kept: the caller keeps the result (the model records the call and
\* what it gave); a call whose result is dropped leaves only what search does to the
\* index. again: the caller makes the call to repeat the one it kept before
SearchWith(query, top_k, kept, again) ==
    /\ SetIndex(IndexAfterSearch(Index, Tokenize(query)))
    /\ IF kept
       THEN /\ search_query' = query
            /\ search_top_k' = top_k
            /\ search_out' = Search(Index, hash_order, query, top_k)
            /\ search_repeat' = again
       ELSE UNCHANGED <<search_query, search_top_k, search_out, search_repeat>>
    /\ hash_order' \in OrdersAfterSearch(hash_order, inverted_index, inverted_index')
    /\ UNCHANGED <<serveVars, nonIndexVars>>

SearchTopKs == (1..MaxSearchK) \cup {DefaultSearchTopK}

SearchCall == \E query \in QueryTexts, top_k \in SearchTopKs : SearchWith(query, top_k, TRUE, FALSE)

\* the call kept before, made once more
SearchAgain ==
    /\ search_out.state # "none"
    /\ SearchWith(search_query, search_top_k, TRUE, TRUE)

\* a call of search made between two calls whose results are compared
SearchBetween == \E query \in QueryTexts, top_k \in SearchTopKs : SearchWith(query, top_k, FALSE, FALSE)

IndexUnused ==
    /\ documents = <<>>
    /\ doc_lengths = <<>>
    /\ avg_doc_length = FloatDiv(0, 1)
    /\ doc_freqs = <<>>
    /\ inverted_index = <<>>
    /\ N = 0
    /\ search_query = <<>>
    /\ search_top_k = 0
    /\ search_out = NoSearch
    /\ search_repeat = FALSE

-----------------------------------------------------------------------------
\* HybridRetriever: construction of the sparse index, sparse search.

NoOffset == [set |-> FALSE, id |-> 0]

\* ' '.join(parts) for non-empty parts
RECURSIVE JoinParts(_)
JoinParts(parts) ==
    IF parts = <<>> THEN <<>>
    ELSE IF Len(parts) = 1 THEN Head(parts)
    ELSE Head(parts) \o <<" ">> \o JoinParts(Tail(parts))

\* [p for p in parts if p]
RECURSIVE NonEmpty(_)
NonEmpty(parts) ==
    IF parts = <<>> THEN <<>>
    ELSE IF Head(parts) = <<>> THEN NonEmpty(Tail(parts))
    ELSE <<Head(parts)>> \o NonEmpty(Tail(parts))

\* payload.get(key, '')
PayloadGet(payload, key) == IF key \in DOMAIN payload THEN payload[key] ELSE <<>>

\* HybridRetriever._create_search_text, for a payload that may hold a name, a
\* description, a provider and a category
CreateSearchText(payload) ==
    JoinParts(NonEmpty(<<PayloadGet(payload, "service_name"), PayloadGet(payload, "description"),
                         PayloadGet(payload, "provider"), PayloadGet(payload, "category")>>))

\* the store's scroll: up to limit points from the offset on, and the id of the point
\* after them, or no offset when there is none
Scroll(points, offset, limit) ==
    LET from == IF offset.set
                THEN {j \in 1..Len(points) : points[j].id >= offset.id}
                ELSE 1..Len(points)
        first == IF from = {} THEN Len(points) + 1 ELSE CHOOSE j \in from : \A k \in from : j <= k
        last  == Min(first + limit - 1, Len(points))
    IN  [results |-> SubSeq(points, first, last),
         next |-> IF last < Len(points) THEN [set |-> TRUE, id |-> points[last + 1].id]
                  ELSE NoOffset]

\* for point in results: self.bm25_index.add_document(str(point.id), search_text)
RECURSIVE AddPoints(_, _)
AddPoints(ix, results) ==
    IF results = <<>> THEN ix
    ELSE AddPoints(AddDoc(ix, IdStr(Head(results).id), CreateSearchText(Head(results).payload)),
                   Tail(results))

\* _build_bm25_index: except Exception as e: print(...); __init__ goes on and returns
OnBuildError == "ready"

\* the loop left after the first page whatever the store answered
ScrollEndsAtOnce(r) == TRUE

\* _build_bm25_index: if not results: break ... if offset is None: break
ScrollEnds(r) == r.results = <<>> \/ ~r.next.set

\* one turn of the while loop of _build_bm25_index on the answer r of the store
ScrollTurn(r) ==
    /\ scroll_offset' = r.next
    /\ SetIndex(AddPoints(Index, r.results))
    /\ hash_order' \in PostingOrders(hash_order, AddPoints(Index, r.results).inverted_index)
    /\ bu_pc' = IF ScrollEnds(r) THEN "ready" ELSE "building"
    /\ pages_done' = pages_done + 1
    /\ UNCHANGED <<store_points, scroll_failed, search_repeat, search_query, search_top_k,
                   search_out, configVars, rerankVars, fusionVars, serveVars>>

\* one turn of the while loop of _build_bm25_index whose scroll call returns
BuildScrollPage ==
    /\ bu_pc = "building"
    /\ ScrollTurn(Scroll(store_points, scroll_offset, ScrollLimit))

\* what a store may answer to scroll: the page with no offset after the last point, or
\* the last page with an offset beyond every point, which the next call answers with an
\* empty page
ScrollAnswers(points, offset, limit) ==
    LET r == Scroll(points, offset, limit)
    IN  {r} \cup (IF r.results # <<>> /\ ~r.next.set
                  THEN {[r EXCEPT !.next = [set |-> TRUE, id |-> points[Len(points)].id + 1]]}
                  ELSE {})

\* one turn of the while loop against a store that ends its scroll in either way
BuildScrollAnyEnd ==
    /\ bu_pc = "building"
    /\ \E r \in ScrollAnswers(store_points, scroll_offset, ScrollLimit) : ScrollTurn(r)

\* one turn of the while loop whose scroll call raises (store unreachable)
BuildScrollFails ==
    /\ bu_pc = "building"
    /\ scroll_failed' = TRUE
    /\ bu_pc' = OnBuildError
    /\ UNCHANGED <<store_points, scroll_offset, pages_done, indexVars, searchVars,
                   configVars, rerankVars, fusionVars, serveVars>>

\* HybridRetriever._sparse_search, the sparse step of retrieve: an exception of search
\* gives no results
SparseSearch ==
    /\ bu_pc = "ready"
    /\ fu_pc = "idle"
    /\ \E query \in QueryTexts :
         LET r == Search(Index, hash_order, query, DefaultSparseTopK)
         IN  /\ search_query' = query
             /\ search_top_k' = DefaultSparseTopK
             /\ search_out' = r
             /\ sparse_results' = IF r.state = "raised" THEN <<>> ELSE r.results
             /\ SetIndex(IndexAfterSearch(Index, Tokenize(query)))
             /\ search_repeat' = (search_out.state # "none" /\ search_query = query
                                  /\ search_top_k = DefaultSparseTopK)
             /\ hash_order' \in OrdersAfterSearch(hash_order, inverted_index, inverted_index')
    /\ UNCHANGED <<dense_results, fused_scores, fused_results, fu_pc,
                   store_points, scroll_offset, pages_done, scroll_failed, bu_pc,
                   configVars, rerankVars, serveVars>>

\* payloads: nothing to index, a name, a name and a description
Payloads ==
    { [service_name |-> <<>>, description |-> <<>>],
      [service_name |-> <<"a">>, description |-> <<>>],
      [service_name |-> <<"A">>, description |-> <<"b">>] }

\* the ids of a set as the store lists them, ascending
RECURSIVE Ascending(_)
Ascending(S) ==
    IF S = {} THEN <<>>
    ELSE LET m == CHOOSE x \in S : \A y \in S : x <= y IN <<m>> \o Ascending(S \ {m})

\* every collection of up to MaxDocs points
Collections ==
    UNION { { [j \in 1..Len(Ascending(S)) |->
                  [id |-> Ascending(S)[j], payload |-> f[Ascending(S)[j]]]] :
              f \in [S -> Payloads] } : S \in SUBSET (1..MaxDocs) }

BuildUnused ==
    /\ store_points = <<>>
    /\ scroll_offset = NoOffset
    /\ pages_done = 0
    /\ scroll_failed = FALSE
    /\ bu_pc = "none"

\* requirements that name no provider and no category
NoRequirements == [preferred_providers |-> {}, service_categories |-> {}]

\* filters = None
NoFilter == [built |-> FALSE, must |-> <<>>]

\* no retrieve and no recommend call made yet
ServeIdle ==
    /\ rt_query = <<>>
    /\ requirements = NoRequirements
    /\ rt_pc = "none"
    /\ rt_filters = NoFilter
    /\ dense_failed = FALSE
    /\ fetch_pos = 0
    /\ fetch_log = <<>>
    /\ retrieved = <<>>
    /\ rc_pc = "none"
    /\ rc_top_k = 0
    /\ calls_made = 0
    /\ rec_result = [state |-> "none"]
    /\ stages_run = {}
    /\ passes_run = 0

-----------------------------------------------------------------------------
\* HybridRetriever.retrieve and RecommendationPipeline.recommend.

\* the point whose id prints as the string
PointOf(id) == CHOOSE j \in 1..MaxDocs : IdStr(j) = id

\* a list reversed
Reverse(list) == [j \in 1..Len(list) |-> list[Len(list) + 1 - j]]

\* the filter built from the providers alone
BuildFiltersProvidersOnly(reqs) ==
    IF reqs.preferred_providers # {}
    THEN [built |-> TRUE, must |-> <<[key |-> "provider", any |-> reqs.preferred_providers]>>]
    ELSE NoFilter

\* HybridRetriever._build_filters: one MatchAny condition per non-empty list, a Filter
\* of the conditions if there is any, else None
BuildFilters(reqs) ==
    LET providers  == IF reqs.preferred_providers # {}
                      THEN <<[key |-> "provider", any |-> reqs.preferred_providers]>>
                      ELSE <<>>
        categories == IF reqs.service_categories # {}
                      THEN <<[key |-> "category", any |-> reqs.service_categories]>>
                      ELSE <<>>
        conditions == providers \o categories
    IN  IF conditions # <<>> THEN [built |-> TRUE, must |-> conditions] ELSE NoFilter

\* the store's reading of query_filter: a point passes when every condition holds of
\* its payload; with no filter every point passes
PassesFilter(point, filters) ==
    \A j \in 1..Len(filters.must) :
        PayloadGet(point.payload, filters.must[j].key) \in filters.must[j].any

\* the points of the collection that pass the filter
FilteredPoints(points, filters) == SelectSeq(points, LAMBDA point : PassesFilter(point, filters))

\* what the store can answer to query_points: the points nearest to the query, here
\* the first k by ascending or by descending id, with falling scores
DenseHits(points) ==
    LET ids == [j \in 1..Len(points) |-> points[j].id]
    IN  {ResultList(Take(order, k), "steep") : order \in {ids, Reverse(ids)}, k \in 0..Len(ids)}

\* the store answering, or an exception: of the embedding call, of the store, or while
\* the answer of the store is read
DenseOutcomes(points) ==
    [raised : BOOLEAN, hits : DenseHits(points)]

\* the handler of _dense_search giving back what was read so far
DenseSearchKeepsHits(outcome) == outcome.hits

\* HybridRetriever._dense_search: the hits as {id, score}; [] on any exception
DenseSearch(outcome) == IF outcome.raised THEN <<>> ELSE outcome.hits

\* what qdrant.retrieve can do for one id: return the point, return nothing, raise
FetchOutcomes == {"found", "missing", "raised"}

\* the loop left at the first fetch that raises
AfterFetchErrorBreak(pos, n) == n

\* except Exception: print(...); continue
AfterFetchError(pos, n) == pos + 1

\* one turn of the loop of _fetch_candidates: a candidate is appended if points came back
FetchStep(cands, item, outcome) ==
    IF outcome = "found"
    THEN Append(cands, [id |-> item.id, fusion_score |-> item.score])
    ELSE cands

\* the summary of _empty_result
BroadenSummary ==
    "No matching cloud services found for your requirements. Try broadening your search criteria."

\* RecommendationPipeline._empty_result
EmptyResult ==
    [state |-> "returned", recommendations |-> <<>>, summary |-> BroadenSummary,
     total_candidates_retrieved |-> 0, total_candidates_reranked |-> 0]

\* the values recommend is called with for top_k: 0 for none given, or a number
TopKOverrides == {0, 1}

\* a call without top_k falling back to the default instead of the configured value
TopKInEffectOrDefault(top_k, configured) == IF top_k # 0 THEN top_k ELSE DefaultTopK

\* recommend: if top_k: self.config.top_k_results = top_k
TopKInEffect(top_k, configured) == IF top_k # 0 THEN top_k ELSE configured

\* recommend(query, top_k) up to the call of retrieve: the top_k override and query
\* understanding, which yields the query text and the requirements; the locals of the
\* call before are no more
RecommendBegin(top_k, query, reqs) ==
    /\ bu_pc = "ready"
    /\ top_k_results' = TopKInEffect(top_k, top_k_results)
    /\ rc_top_k' = top_k
    /\ calls_made' = calls_made + 1
    /\ rt_query' = query
    /\ requirements' = reqs
    /\ rc_pc' = "retrieve"
    /\ rt_pc' = "dense"
    /\ rec_result' = [state |-> "none"]
    /\ stages_run' = {}
    /\ passes_run' = 0
    /\ dense_results' = <<>>
    /\ sparse_results' = <<>>
    /\ fused_scores' = <<>>
    /\ fused_results' = <<>>
    /\ fu_pc' = "idle"
    /\ UNCHANGED <<max_candidates, fusion_top_k, rt_filters, dense_failed, fetch_pos, fetch_log,
                   retrieved, rerankVars, indexVars, searchVars, buildVars>>

\* the first recommend call on a pipeline, with requirements that name no provider
\* and no category
RecommendEnter ==
    /\ rc_pc = "none"
    /\ \E top_k \in TopKOverrides, query \in QueryTexts \ {<<>>} :
          RecommendBegin(top_k, query, NoRequirements)

\* a later recommend call on the same pipeline
RecommendAgain ==
    /\ rc_pc = "done"
    /\ calls_made < MaxCalls
    /\ \E top_k \in TopKOverrides, query \in QueryTexts \ {<<>>} :
          RecommendBegin(top_k, query, NoRequirements)

\* the requirements query understanding may extract: providers, categories, both, none
RequirementChoices ==
    [preferred_providers : {{}, {<<"x">>}}, service_categories : {{}, {<<"d">>}}]

\* a recommend call whose query names a service and whose requirements may name a
\* provider or a category
RecommendFiltered ==
    /\ rc_pc = "none"
    /\ \E reqs \in RequirementChoices : RecommendBegin(0, <<"A">>, reqs)

\* retrieve: filters = self._build_filters(requirements);
\* dense_results = self._dense_search(query, filters)
RetrieveDense ==
    /\ rt_pc = "dense"
    /\ rt_filters' = BuildFilters(requirements)
    /\ \E outcome \in DenseOutcomes(FilteredPoints(store_points, rt_filters')) :
          /\ dense_results' = DenseSearch(outcome)
          /\ dense_failed' = outcome.raised
    /\ rt_pc' = "sparse"
    /\ UNCHANGED <<sparse_results, fused_scores, fused_results, fu_pc, rt_query, requirements,
                   fetch_pos, fetch_log, retrieved, rc_pc, rc_top_k, calls_made, rec_result,
                   stages_run, passes_run, configVars, rerankVars, indexVars, searchVars,
                   buildVars>>

\* retrieve: sparse_results = self._sparse_search(query)
RetrieveSparse ==
    /\ rt_pc = "sparse"
    /\ LET r == Search(Index, hash_order, rt_query, DefaultSparseTopK)
       IN  /\ search_query' = rt_query
           /\ search_top_k' = DefaultSparseTopK
           /\ search_out' = r
           /\ sparse_results' = IF r.state = "raised" THEN <<>> ELSE r.results
           /\ SetIndex(IndexAfterSearch(Index, Tokenize(rt_query)))
    /\ search_repeat' = (search_out.state # "none" /\ search_query = rt_query
                         /\ search_top_k = DefaultSparseTopK)
    /\ hash_order' \in OrdersAfterSearch(hash_order, inverted_index, inverted_index')
    /\ rt_pc' = "fuse"
    /\ UNCHANGED <<dense_results, fused_scores, fused_results, fu_pc, rt_query,
                   requirements, rt_filters, dense_failed, fetch_pos, fetch_log, retrieved,
                   rc_pc, rc_top_k, calls_made, rec_result, stages_run, passes_run,
                   store_points, scroll_offset, pages_done, scroll_failed, bu_pc,
                   configVars, rerankVars>>

\* retrieve: fused_results = self._reciprocal_rank_fusion(dense_results, sparse_results)
RetrieveFuse ==
    /\ rt_pc = "fuse"
    /\ fused_scores' = FusedScores(dense_results, sparse_results)
    /\ fused_results' = Take(SortDesc(fused_scores'), fusion_top_k)
    /\ fu_pc' = "done"
    /\ rt_pc' = "fetch"
    /\ fetch_pos' = 0
    /\ fetch_log' = <<>>
    /\ retrieved' = <<>>
    /\ UNCHANGED <<dense_results, sparse_results, rt_query, requirements, rt_filters,
                   dense_failed, rc_pc, rc_top_k, calls_made, rec_result, stages_run,
                   passes_run, configVars, rerankVars, indexVars, searchVars, buildVars>>

\* _fetch_candidates: one turn of the loop over fused_results
RetrieveFetch ==
    /\ rt_pc = "fetch"
    /\ fetch_pos < Len(fused_results)
    /\ \E outcome \in FetchOutcomes :
          /\ retrieved' = FetchStep(retrieved, fused_results[fetch_pos + 1], outcome)
          /\ fetch_log' = Append(fetch_log, IF outcome = "found" THEN "found" ELSE "skipped")
          /\ fetch_pos' = IF outcome = "raised"
                          THEN AfterFetchError(fetch_pos, Len(fused_results))
                          ELSE fetch_pos + 1
    /\ UNCHANGED <<rt_query, requirements, rt_pc, rt_filters, dense_failed, rc_pc, rc_top_k,
                   calls_made, rec_result, stages_run, passes_run, configVars, rerankVars,
                   fusionVars, indexVars, searchVars, buildVars>>

\* _fetch_candidates returns, and so does retrieve
RetrieveReturn ==
    /\ rt_pc = "fetch"
    /\ fetch_pos >= Len(fused_results)
    /\ rt_pc' = "returned"
    /\ UNCHANGED <<rt_query, requirements, rt_filters, dense_failed, fetch_pos, fetch_log,
                   retrieved, rc_pc, rc_top_k, calls_made, rec_result, stages_run, passes_run,
                   configVars, rerankVars, fusionVars, indexVars, searchVars, buildVars>>

\* the test for candidates left out
NoCandidatesNever(cands) == FALSE

\* recommend: if not candidates
NoCandidates(cands) == cands = <<>>

\* recommend returns: the call of retrieve and its candidate list are no more
RetrieveLocalsGone ==
    /\ rt_pc' = "none"
    /\ rt_filters' = NoFilter
    /\ dense_failed' = FALSE
    /\ fetch_pos' = 0
    /\ fetch_log' = <<>>
    /\ retrieved' = <<>>

\* recommend: if not candidates: return self._empty_result(...)
RecommendEmpty ==
    /\ rc_pc = "retrieve"
    /\ rt_pc = "returned"
    /\ NoCandidates(retrieved)
    /\ rec_result' = EmptyResult
    /\ rc_pc' = "done"
    /\ RetrieveLocalsGone
    /\ UNCHANGED <<rt_query, requirements, rc_top_k, calls_made, stages_run, passes_run,
                   configVars, rerankVars, fusionVars, indexVars, searchVars, buildVars>>

\* the order the scorer leaves the reranked candidates in: it sorts by a final score
\* in which the rerank score weighs half and the price, capacity and features of the
\* payload against the requirements weigh the other half, so it may give any order
ScorerOrders(scored_candidates) ==
    {[j \in 1..Len(scored_candidates) |-> scored_candidates[p[j]]] :
        p \in Perms(1..Len(scored_candidates))}

\* the cut to top_k_results left out
ScoreAndRankUncut(order, topk) ==
    [j \in 1..Len(order) |-> [rank |-> j, candidate |-> order[j].candidate]]

\* MultiDimensionalScorer.score_and_rank: recommendations[:self.config.top_k_results],
\* ranks counted from 1
ScoreAndRank(order, topk) ==
    [j \in 1..Min(Len(order), topk) |-> [rank |-> j, candidate |-> order[j].candidate]]

\* recommend with candidates: rerank, score, summarize, return. The oracle is the
\* ground-truth comparator with the lower point id as the more relevant.
RecommendRank ==
    /\ rc_pc = "retrieve"
    /\ rt_pc = "returned"
    /\ ~NoCandidates(retrieved)
    /\ LET cands == [j \in 1..Len(retrieved) |-> PointOf(retrieved[j].id)]
           scored_candidates == Rerank(cands, max_candidates, num_passes, "truth")
       IN  /\ passes_run' = PassesMade(cands, num_passes)
           /\ IF scored_candidates = <<>>
              THEN /\ rec_result' = EmptyResult
                   /\ stages_run' = {"reranker"}
              ELSE /\ \E order \in ScorerOrders(scored_candidates),
                         summary \in {"generated", "fallback"} :
                         rec_result' = [state |-> "returned",
                                        recommendations |-> ScoreAndRank(order, top_k_results),
                                        summary |-> summary,
                                        total_candidates_retrieved |-> Len(retrieved),
                                        total_candidates_reranked |-> Len(scored_candidates)]
                   /\ stages_run' = {"reranker", "scorer"}
    /\ rc_pc' = "done"
    /\ RetrieveLocalsGone
    /\ UNCHANGED <<rt_query, requirements, rc_top_k, calls_made, configVars, rerankVars,
                   fusionVars, indexVars, searchVars, buildVars>>

-----------------------------------------------------------------------------
\* Inputs of rerank.

\* the list 1, 2, ..., n for n up to MaxN
PlainLists == {[j \in 1..n |-> j] : n \in 0..MaxN}

\* every ordering of 1..n for n up to MaxN
SmallOrders == UNION {Perms(1..n) : n \in 0..MaxN}

\* a list of BigN candidates: the MaxPasses most relevant at the positions place[1..],
\* the others in ascending or descending relevance
BigOrder(place, asc) ==
    [p \in 1..BigN |->
        IF \E t \in 1..MaxPasses : place[t] = p
        THEN CHOOSE t \in 1..MaxPasses : place[t] = p
        ELSE LET r == Cardinality({q \in 1..p : \A t \in 1..MaxPasses : place[t] # q})
             IN  IF asc THEN MaxPasses + r ELSE BigN + 1 - r]

BigOrders ==
    {BigOrder(place, asc) :
        place \in {f \in [1..MaxPasses -> 1..BigN] : \A s, t \in 1..MaxPasses : f[s] = f[t] => s = t},
        asc \in BOOLEAN}

RerankIdle(kind, inputs, caps) ==
    /\ top_k_results \in 1..MaxTopK
    /\ max_candidates \in caps
    /\ num_passes = NumPasses(top_k_results)
    /\ oracle_kind = kind
    /\ candidates \in inputs
    /\ ranked_obj = "none"
    /\ ranked = <<>>
    /\ pass_num = 0
    /\ pos_i = 0
    /\ oracle_calls = 0
    /\ last_cmp = NoCmp
    /\ scored = <<>>
    /\ rr_pc = "idle"
    /\ fusion_top_k = DefaultFusionTopK
    /\ FusionIdle
    /\ IndexUnused
    /\ hash_order = <<>>
    /\ BuildUnused
    /\ ServeIdle

RerankNext == RerankEnter \/ RerankCompare \/ RerankPassEnd \/ RerankFinish

\* rerank with an oracle that may answer anything or fail; the oracle does not look at
\* the candidates, so one initial order per length stands for all
InitRerank == RerankIdle("free", PlainLists, (1..MaxCap) \cup {DefaultMaxCandidates})

SpecRerank == InitRerank /\ [][RerankNext]_vars

\* rerank with the ground-truth comparator as oracle
InitSort == RerankIdle("truth", SmallOrders \cup BigOrders, {DefaultMaxCandidates})

SpecSort == InitSort /\ [][RerankNext]_vars

\* rerank with the stub oracle that prefers databases to compute services
InitCategory == RerankIdle("category", SmallOrders, {MaxCap, DefaultMaxCandidates})

SpecCategory == InitCategory /\ [][RerankNext]_vars

\* rerank with the ground-truth comparator, under a caller that may cancel it
InitCancel == RerankIdle("truth", SmallOrders, {DefaultMaxCandidates})

CancelNext == RerankEnter \/ RerankCompare \/ RerankCancel \/ RerankPassEnd \/ RerankFinish

SpecCancel == InitCancel /\ [][CancelNext]_vars

\* the reranker constructed and not called
RerankerUnused ==
    /\ top_k_results = DefaultTopK
    /\ max_candidates = DefaultMaxCandidates
    /\ num_passes = NumPasses(top_k_results)
    /\ oracle_kind = "free"
    /\ candidates = <<>>
    /\ ranked_obj = "none"
    /\ ranked = <<>>
    /\ pass_num = 0
    /\ pos_i = 0
    /\ oracle_calls = 0
    /\ last_cmp = NoCmp
    /\ scored = <<>>
    /\ rr_pc = "idle"

\* rank fusion of every pair of result lists
InitFusion ==
    /\ RerankerUnused
    /\ fusion_top_k \in (1..MaxFuseK) \cup {DefaultFusionTopK}
    /\ \E pair \in ResultListPairs :
          /\ dense_results = pair[1]
          /\ sparse_results = pair[2]
    /\ fused_scores = <<>>
    /\ fused_results = <<>>
    /\ fu_pc = "idle"
    /\ IndexUnused
    /\ hash_order = <<>>
    /\ BuildUnused
    /\ ServeIdle

FusionNext == ReciprocalRankFusion

SpecFusion == InitFusion /\ [][FusionNext]_vars

\* a sparse index filled by add_document calls and searched
InitIndex ==
    /\ RerankerUnused
    /\ fusion_top_k = DefaultFusionTopK
    /\ FusionIdle
    /\ IndexUnused
    /\ hash_order = <<>>
    /\ BuildUnused
    /\ ServeIdle

IndexNext == AddDocument \/ SearchCall

SpecIndex == InitIndex /\ [][IndexNext]_vars

\* ---- a BM25Index of long documents ----

\* the text of k words, each the id of the document
OwnWords(doc_id, k) == [j \in 1..(2 * k - 1) |-> IF j % 2 = 1 THEN doc_id ELSE " "]

\* texts of four and five words no other document has; the first documents may also
\* be short ones with words in common
LongDocText ==
    [doc_id \in DocIds(MaxLongDocs) |->
        {OwnWords(doc_id, 4), OwnWords(doc_id, 5)}
          \cup (IF doc_id \in DocIds(MaxSharedDocs)
                THEN { <<"a", " ", "a">>, <<"A", "-", "b">> }
                ELSE {})]

AddLongDocument == AddDocumentOf(MaxLongDocs, LongDocText)

SpecAverage == InitIndex /\ [][AddLongDocument]_vars

\* ---- one query asked again of a BM25Index ----

RepeatDocText == [doc_id \in DocIds(MaxDocs) |-> { <<"a">>, <<"A", "-", "b">> }]

AddRepeatDocument == AddDocumentOf(MaxDocs, RepeatDocText)

RepeatNext == AddRepeatDocument \/ SearchCall \/ SearchBetween \/ SearchAgain

SpecRepeat == InitIndex /\ [][RepeatNext]_vars

\* a retriever under construction over any collection, then serving sparse searches
InitBuild ==
    /\ RerankerUnused
    /\ fusion_top_k = DefaultFusionTopK
    /\ FusionIdle
    /\ IndexUnused
    /\ hash_order = <<>>
    /\ store_points \in Collections
    /\ scroll_offset = NoOffset
    /\ pages_done = 0
    /\ scroll_failed = FALSE
    /\ bu_pc = "building"
    /\ ServeIdle

BuildNext == BuildScrollPage \/ BuildScrollFails \/ SparseSearch

SpecBuild == InitBuild /\ [][BuildNext]_vars

\* construction over any collection against a store that never fails; the loop takes
\* its next turn whenever the scroll call returns
ScrollNext == BuildScrollAnyEnd

\* the loop takes a turn: a scroll call returned
ScrollProgress == bu_pc = "building" /\ pages_done' = pages_done + 1

SpecScroll == InitBuild /\ [][ScrollNext]_vars /\ WF_pages_done(ScrollProgress)

\* payloads of services named by one word
ServePayloads ==
    { [service_name |-> <<"a">>, description |-> <<>>],
      [service_name |-> <<"b">>, description |-> <<>>] }

\* the collections a pipeline is built over: points 1..n, each with one of the names
ServeCollections ==
    UNION { { [j \in 1..n |-> [id |-> j, payload |-> f[j]]] : f \in [1..n -> ServePayloads] } :
            n \in 0..MaxDocs }

\* the retriever has indexed its collection and no query was served yet
PipelineBuilt ==
    /\ LET ix == AddPoints(EmptyIndex, store_points)
       IN  /\ documents = ix.documents
           /\ doc_lengths = ix.doc_lengths
           /\ avg_doc_length = ix.avg_doc_length
           /\ doc_freqs = ix.doc_freqs
           /\ inverted_index = ix.inverted_index
           /\ N = ix.N
           /\ hash_order \in PostingOrders(<<>>, ix.inverted_index)
    /\ search_query = <<>>
    /\ search_top_k = 0
    /\ search_out = NoSearch
    /\ scroll_offset = NoOffset
    /\ pages_done = Max(1, (Len(store_points) + ScrollLimit - 1) \div ScrollLimit)
    /\ scroll_failed = FALSE
    /\ bu_pc = "ready"
    /\ search_repeat = FALSE
    /\ FusionIdle
    /\ ServeIdle

\* a pipeline whose retriever has indexed its collection, before its first query
InitRecommend ==
    /\ RerankerUnused
    /\ fusion_top_k = DefaultFusionTopK
    /\ store_points \in ServeCollections
    /\ PipelineBuilt

RecommendNext ==
    \/ RecommendEnter
    \/ RetrieveDense
    \/ RetrieveSparse
    \/ RetrieveFuse
    \/ RetrieveFetch
    \/ RetrieveReturn
    \/ RecommendEmpty
    \/ RecommendRank

SpecRecommend == InitRecommend /\ [][RecommendNext]_vars

\* the collections of n points, the odd ones named a, the even ones named b
PlainCollections ==
    { [j \in 1..n |->
          [id |-> j,
           payload |-> IF j % 2 = 0 THEN [service_name |-> <<"b">>, description |-> <<>>]
                       ELSE [service_name |-> <<"a">>, description |-> <<>>]]] : n \in 0..MaxDocs }

\* a pipeline with the default configuration over one of the plain collections, which
\* serves several queries one after the other
InitSession ==
    /\ RerankerUnused
    /\ fusion_top_k = DefaultFusionTopK
    /\ store_points \in PlainCollections
    /\ PipelineBuilt

SessionNext ==
    \/ RecommendEnter
    \/ RecommendAgain
    \/ RetrieveDense
    \/ RetrieveSparse
    \/ RetrieveFuse
    \/ RetrieveFetch
    \/ RetrieveReturn
    \/ RecommendEmpty
    \/ RecommendRank

SpecSession == InitSession /\ [][SessionNext]_vars

\* a pipeline configured with small or default values of top_k_results, max_candidates
\* and fusion_top_k over one of the plain collections
InitStages ==
    /\ top_k_results \in 1..MaxTopK
    /\ max_candidates \in (1..MaxCap) \cup {DefaultMaxCandidates}
    /\ fusion_top_k \in (1..MaxFuseK) \cup {DefaultFusionTopK}
    /\ num_passes = NumPasses(top_k_results)
    /\ oracle_kind = "free"
    /\ candidates = <<>>
    /\ ranked_obj = "none"
    /\ ranked = <<>>
    /\ pass_num = 0
    /\ pos_i = 0
    /\ oracle_calls = 0
    /\ last_cmp = NoCmp
    /\ scored = <<>>
    /\ rr_pc = "idle"
    /\ store_points \in PlainCollections
    /\ PipelineBuilt

SpecStages == InitStages /\ [][RecommendNext]_vars

\* payloads that name a provider and a category
FilterPayloads ==
    << [service_name |-> <<"a">>, description |-> <<>>, provider |-> <<"x">>, category |-> <<"d">>],
       [service_name |-> <<"a">>, description |-> <<>>, provider |-> <<"y">>, category |-> <<"d">>],
       [service_name |-> <<"b">>, description |-> <<>>, provider |-> <<"x">>, category |-> <<"c">>] >>

\* the collections of points 1..n that take these payloads in turn
FilterCollections ==
    { [j \in 1..n |-> [id |-> j, payload |-> FilterPayloads[((j - 1) % Len(FilterPayloads)) + 1]]] :
        n \in 0..MaxDocs }

\* a pipeline with the default configuration over a collection of several providers
\* and categories
InitFilter ==
    /\ RerankerUnused
    /\ fusion_top_k = DefaultFusionTopK
    /\ store_points \in FilterCollections
    /\ PipelineBuilt

FilterNext ==
    \/ RecommendFiltered
    \/ RetrieveDense
    \/ RetrieveSparse
    \/ RetrieveFuse
    \/ RetrieveFetch
    \/ RetrieveReturn
    \/ RecommendEmpty
    \/ RecommendRank

SpecFilter == InitFilter /\ [][FilterNext]_vars

-----------------------------------------------------------------------------
\* Claims about rerank.

\* the j-th most relevant of the candidates of a list, by the ground truth
TrueTop(cands, j) ==
    CHOOSE c \in Range(cands) : Cardinality({d \in Range(cands) : d < c}) = j - 1

\* the number of candidates rerank works on
Considered == Min(Len(candidates), max_candidates)

\* C1: with the ground-truth comparator as oracle and n <= max_candidates distinct
\* candidates in any initial order, once p passes are complete the first p positions
\* hold the true top-p candidates in true order (and so does the returned list for
\* p = num_passes).
C1_TopPAfterPPasses ==
    (rr_pc \in {"pass", "score", "done"} /\ Len(candidates) >= 2
        /\ Len(candidates) <= max_candidates)
    => /\ \A j \in 1..Min(pass_num, Len(ranked)) : ranked[j] = TrueTop(candidates, j)
       /\ rr_pc = "done" =>
             /\ pass_num = num_passes
             /\ \A j \in 1..Min(num_passes, Len(scored)) :
                    scored[j].candidate = TrueTop(candidates, j)

\* C1 witness: ten candidates with the two most relevant last, three passes done
C1_Witness ==
    /\ rr_pc = "done"
    /\ Len(candidates) = BigN
    /\ num_passes = MaxPasses
    /\ candidates[BigN] = 1
    /\ candidates[BigN - 1] = 2
    /\ candidates[1] = BigN
    /\ \A j \in 1..MaxPasses : scored[j].candidate = j

\* C2 as stated: a rerank call on n >= 2 candidates makes exactly p * (n - 1) oracle
\* calls, whatever the oracle answers.
C2_CallsEqualPTimesNMinus1 ==
    (rr_pc = "done" /\ Len(candidates) >= 2)
    => oracle_calls = num_passes * (Len(candidates) - 1)

\* C2 amended: a rerank call on n >= 2 candidates makes exactly
\* p * (min(n, max_candidates) - 1) oracle calls, whatever the oracle answers, and
\* never more than that at any point of the call.
C2_CallsEqualPTimesConsidered ==
    (rr_pc \in {"pass", "score", "done"} /\ Len(candidates) >= 2)
    => /\ oracle_calls <= num_passes * (Considered - 1)
       /\ rr_pc \in {"score", "done"} => oracle_calls = num_passes * (Considered - 1)

\* C2 witness: four candidates capped to three, three passes, a failed last call
C2_Witness ==
    /\ rr_pc = "done"
    /\ Len(candidates) = 4
    /\ max_candidates = 3
    /\ num_passes = MaxPasses
    /\ oracle_calls = 6
    /\ last_cmp.outcome.kind = "timeout"

\* how often candidate c occurs in the returned list
Occurrences(c) == Cardinality({j \in 1..Len(scored) : scored[j].candidate = c})

\* C3 as stated: whatever the oracle does, no exception leaves rerank and the returned
\* list has the length of the input list and holds every input candidate exactly once.
C3_FullInputReturned ==
    /\ rr_pc # "raised"
    /\ rr_pc = "done" =>
          /\ Len(scored) = Len(candidates)
          /\ \A c \in Range(candidates) : Occurrences(c) = 1

\* C3 amended: whatever the oracle does, no exception leaves rerank and the returned
\* list has length min(n, max_candidates) and holds each of the first
\* min(n, max_candidates) input candidates exactly once and nothing else.
C3_ConsideredReturned ==
    /\ rr_pc # "raised"
    /\ rr_pc = "done" =>
          /\ Len(scored) = Considered
          /\ \A c \in Range(Take(candidates, max_candidates)) : Occurrences(c) = 1
          /\ \A j \in 1..Len(scored) :
                scored[j].candidate \in Range(Take(candidates, max_candidates))

\* C3 witness: a call whose last comparison failed and that returned all candidates
C3_Witness ==
    /\ rr_pc = "done"
    /\ Len(candidates) = 3
    /\ max_candidates >= 3
    /\ last_cmp.outcome.kind = "error"
    /\ Len(scored) = 3
    /\ scored[1].candidate # candidates[1]

\* the reply of the last comparison as _compare_pair reads it
LastResult == Upper(Strip(last_cmp.outcome.text))

\* the pair of the last comparison is in the order it was compared in
LeftStaysLeft == ranked[last_cmp.at] = last_cmp.a /\ ranked[last_cmp.at + 1] = last_cmp.b

\* C4 as stated: a failed call, or a reply that trimmed and upper-cased is not exactly
\* "A" or "B", gives winner "A" and no swap.
C4_NotExactlyABKeepsOrder ==
    (last_cmp.outcome.kind # "none"
        /\ (last_cmp.outcome.kind # "ok" \/ LastResult \notin {<<"A">>, <<"B">>}))
    => last_cmp.winner = "A" /\ ~last_cmp.swapped /\ LeftStaysLeft

\* C4 amended: a failed call, or a reply that trimmed and upper-cased holds no "B", or
\* holds both "A" and "B" and does not start with "B", gives winner "A" and no swap;
\* every other reply (a "B" without "A", or both and "B" first) gives "B" and a swap.
C4_UnparsedKeepsOrder ==
    last_cmp.outcome.kind # "none"
    => LET readsB == /\ last_cmp.outcome.kind = "ok"
                     /\ Contains(LastResult, "B")
                     /\ (~Contains(LastResult, "A") \/ LastResult[1] = "B")
       IN  IF readsB
           THEN /\ last_cmp.winner = "B" /\ last_cmp.swapped
                /\ ranked[last_cmp.at] = last_cmp.b /\ ranked[last_cmp.at + 1] = last_cmp.a
           ELSE last_cmp.winner = "A" /\ ~last_cmp.swapped /\ LeftStaysLeft

\* C4 witness: the reply "xAB" holds both letters, starts with neither, and swaps nothing
C4_Witness ==
    /\ last_cmp.outcome.kind = "ok"
    /\ last_cmp.outcome.text = <<"x", "A", "B">>
    /\ last_cmp.b < last_cmp.a
    /\ ~last_cmp.swapped
    /\ LeftStaysLeft

-----------------------------------------------------------------------------
\* Claims about rank fusion.

\* the 1-based position of id in a result list that holds it
RankIn(results, id) == CHOOSE j \in 1..Len(results) : results[j].id = id

\* the score the dict holds for id
ScoreOf(id) == fused_scores[CHOOSE j \in 1..Len(fused_scores) : fused_scores[j].id = id].score

\* the position of id in the returned list, 0 when it was cut off
PlaceOf(id) ==
    IF id \in Ids(fused_results)
    THEN CHOOSE j \in 1..Len(fused_results) : fused_results[j].id = id
    ELSE 0

\* the sum of 1/(k + rank) over the lists that hold id, written out
RankSum(id) ==
    LET inD == id \in Ids(dense_results)
        inS == id \in Ids(sparse_results)
        kd  == RRF_K + RankIn(dense_results, id)
        ks  == RRF_K + RankIn(sparse_results, id)
    IN  IF inD /\ inS THEN Frac(kd + ks, kd * ks)
        ELSE IF inD THEN Frac(1, kd)
        ELSE Frac(1, ks)

\* C6: after fusion the score of every id of either list is the sum, over the lists that
\* hold it, of 1/(k + rank) with rank its 1-based position there, whatever the raw scores
\* are; the dict holds exactly the ids of the two lists; an id alone at dense rank 1 with
\* an empty sparse list scores exactly 1/(k + 1).
C6_ScoreIsRankSum ==
    fu_pc = "done"
    => /\ Ids(fused_scores) = Ids(dense_results) \cup Ids(sparse_results)
       /\ \A id \in Ids(fused_scores) : FracEq(ScoreOf(id), RankSum(id))
       /\ \A j \in 1..Len(fused_results) :
             FracEq(fused_results[j].score, RankSum(fused_results[j].id))
       /\ (Len(dense_results) = 1 /\ sparse_results = <<>>)
             => /\ Len(fused_results) = 1
                /\ fused_results[1].id = dense_results[1].id
                /\ fused_results[1].score.n * (RRF_K + 1) = fused_results[1].score.d

\* C6 witness: an id at dense rank 2 and sparse rank 1, with raw scores that fall with
\* the rank in one list and are flat in the other
C6_Witness ==
    /\ fu_pc = "done"
    /\ Len(dense_results) = 3
    /\ Len(sparse_results) = 2
    /\ dense_results[1].score > dense_results[2].score
    /\ sparse_results[1].score = sparse_results[2].score
    /\ dense_results[2].id = sparse_results[1].id
    /\ fused_results[1].id = sparse_results[1].id
    /\ FracEq(fused_results[1].score, Frac(2 * RRF_K + 3, (RRF_K + 1) * (RRF_K + 2)))

\* where the dict first saw id: dense order first, then the sparse-only ids in sparse order
FirstSeen(id) ==
    IF id \in Ids(dense_results)
    THEN RankIn(dense_results, id)
    ELSE Len(dense_results) + RankIn(sparse_results, id)

\* C7: the returned list holds each id at most once, is ordered by non-increasing fused
\* score, has length min(number of distinct ids, fusion_top_k), and ids of equal score are
\* in order of first appearance (dense order first, then sparse-only ids in sparse order).
C7_SortedDistinctCutStable ==
    fu_pc = "done"
    => /\ \A a, b \in 1..Len(fused_results) :
             fused_results[a].id = fused_results[b].id => a = b
       /\ \A a, b \in 1..Len(fused_results) :
             a < b => ~FracLt(fused_results[a].score, fused_results[b].score)
       /\ Len(fused_results)
             = Min(Cardinality(Ids(dense_results) \cup Ids(sparse_results)), fusion_top_k)
       /\ \A a, b \in 1..Len(fused_results) :
             (a < b /\ FracEq(fused_results[a].score, fused_results[b].score))
             => FirstSeen(fused_results[a].id) < FirstSeen(fused_results[b].id)

\* C7 witness: a dense-only id and a sparse-only id tie at rank 1, and the list is cut
C7_Witness ==
    /\ fu_pc = "done"
    /\ Len(dense_results) = 2
    /\ Len(sparse_results) = 1
    /\ Ids(dense_results) \cap Ids(sparse_results) = {}
    /\ fusion_top_k = 2
    /\ Len(fused_results) = 2
    /\ fused_results[1].id = dense_results[1].id
    /\ fused_results[2].id = sparse_results[1].id
    /\ FracEq(fused_results[1].score, fused_results[2].score)

\* the ids of a list of items, in order
IdList(items) == [j \in 1..Len(items) |-> items[j].id]

\* C8: fusing an empty list with a non-empty list, in either argument position, returns
\* the ids of the non-empty list in their order, cut to fusion_top_k.
C8_EmptyInputKeepsOrder ==
    fu_pc = "done"
    => /\ (dense_results = <<>> /\ sparse_results # <<>>)
             => IdList(fused_results) = Take(IdList(sparse_results), fusion_top_k)
       /\ (sparse_results = <<>> /\ dense_results # <<>>)
             => IdList(fused_results) = Take(IdList(dense_results), fusion_top_k)

\* C8 witness: three sparse results, no dense result, the fused list cut to two
C8_Witness ==
    /\ fu_pc = "done"
    /\ dense_results = <<>>
    /\ Len(sparse_results) = 3
    /\ fusion_top_k = 2
    /\ IdList(fused_results) = <<sparse_results[1].id, sparse_results[2].id>>

\* id y is in the one list `results` only, at a worse rank than x has there
WorseInOneList(x, y, results, other) ==
    /\ y \in Ids(results)
    /\ y \notin Ids(other)
    /\ RankIn(results, y) > RankIn(results, x)

\* C9: an id in both lists has a fused score not below that of any id that is in one list
\* only at a worse rank than the first id has in that list, and is never placed after it.
C9_BothListsBeatWorseSingle ==
    fu_pc = "done"
    => \A x \in Ids(dense_results) \cap Ids(sparse_results) :
         \A y \in Ids(fused_scores) :
            (WorseInOneList(x, y, dense_results, sparse_results)
                \/ WorseInOneList(x, y, sparse_results, dense_results))
            => /\ ~FracLt(ScoreOf(x), ScoreOf(y))
               /\ PlaceOf(y) # 0 => (PlaceOf(x) # 0 /\ PlaceOf(x) < PlaceOf(y))

\* C9 witness: x at dense rank 1 and sparse rank 3, y in the dense list only at rank 2
C9_Witness ==
    /\ fu_pc = "done"
    /\ Len(dense_results) = 2
    /\ Len(sparse_results) = 3
    /\ sparse_results[3].id = dense_results[1].id
    /\ dense_results[2].id \notin Ids(sparse_results)
    /\ PlaceOf(dense_results[1].id) # 0
    /\ PlaceOf(dense_results[1].id) < PlaceOf(dense_results[2].id)

-----------------------------------------------------------------------------
\* Claims about the sparse index.

\* C10: in every index reachable by add_document calls with distinct ids, documents
\* without tokens included, no search divides by zero or raises, for any query; on an
\* index without documents search returns the empty list.
C10_SearchNeverRaises ==
    /\ search_out.state # "raised"
    /\ (search_out.state = "returned" /\ N = 0) => search_out.results = <<>>
    /\ \A t \in DOMAIN inverted_index : \A d \in inverted_index[t] : avg_doc_length.n > 0

\* C10 witness: a document without tokens and one with tokens, and a search that scored
C10_Witness ==
    /\ N = 2
    /\ \E d \in DOMAIN doc_lengths : doc_lengths[d] = 0
    /\ search_out.state = "returned"
    /\ search_out.results # <<>>

-----------------------------------------------------------------------------
\* Claims about the construction of the retriever.

\* the ids of the documents of the index, in insertion order
DocIdList == [j \in 1..Len(documents) |-> documents[j].id]

\* the string ids of the first n points of the collection
FirstPointIds(n) == [j \in 1..n |-> IdStr(store_points[j].id)]

\* C5: when a scroll fails during the construction of the sparse index, the
\* construction of the retriever fails, and no retriever with an empty or partly built
\* index ever serves a search.
C5_ScrollFailureStopsConstruction ==
    scroll_failed => (bu_pc = "failed" /\ search_out.state = "none")


-----------------------------------------------------------------------------
\* the stored documents whose token list holds the token
DocsWith(tok) == {j \in 1..Len(documents) : Count(documents[j].tokens, tok) > 0}

\* every token of every stored document
StoredTokens == UNION {Range(documents[j].tokens) : j \in 1..Len(documents)}

\* sum of all document lengths
DocLengthSum == SumValues(doc_lengths, DOMAIN doc_lengths)

\* N is the number of stored documents; every token's document-frequency counter
\* equals the size of its posting set and the number of stored documents that contain
\* the token
CountersConsistent ==
    /\ N = Len(documents)
    /\ DOMAIN doc_lengths = {documents[j].id : j \in 1..Len(documents)}
    /\ DOMAIN doc_freqs = StoredTokens
    /\ DOMAIN inverted_index = StoredTokens
    /\ \A tok \in StoredTokens :
          /\ doc_freqs[tok] = Cardinality(inverted_index[tok])
          /\ doc_freqs[tok] = Cardinality(DocsWith(tok))
          /\ inverted_index[tok] = {documents[j].id : j \in DocsWith(tok)}

\* avg_doc_length * N, the product of floats the program would compute
AverageTimesN == Binary64Times(avg_doc_length.value, N)

\* C11, as the claim states it: after any sequence of add_document calls with pairwise
\* distinct ids, N is the number of stored documents; every token's document-frequency
\* counter equals the size of its posting set and the number of stored documents that
\* contain the token; avg_doc_length * N equals the sum of all document lengths.
C11_AverageTimesNEqualsSum ==
    /\ CountersConsistent
    /\ AverageTimesN = Binary64Div(DocLengthSum, 1)

\* C11: after any sequence of add_document calls with pairwise distinct ids, N is the
\* number of stored documents; every token's document-frequency counter equals the
\* size of its posting set and the number of stored documents that contain the token;
\* avg_doc_length is the float quotient of the sum of all document lengths by N (0
\* before the first document), so that avg_doc_length * N is the sum of the lengths
\* or the float next to it, above or below.
C11_IndexCountersConsistent ==
    /\ CountersConsistent
    /\ avg_doc_length.value = IF N = 0 THEN Binary64Zero ELSE Binary64Div(DocLengthSum, N)
    /\ \/ AverageTimesN = Binary64Div(DocLengthSum, 1)
       \/ AverageTimesN = Binary64After(Binary64Div(DocLengthSum, 1))
       \/ Binary64After(AverageTimesN) = Binary64Div(DocLengthSum, 1)

\* seven documents of 29 tokens in all, two of them sharing a token that one of them
\* holds twice, whose average times 7 is not 29
C11_Witness ==
    /\ N = 7
    /\ DocLengthSum = 29
    /\ AverageTimesN # Binary64Div(DocLengthSum, 1)
    /\ \E tok \in StoredTokens :
          /\ doc_freqs[tok] = 2
          /\ \E j \in DocsWith(tok) : Count(documents[j].tokens, tok) = 2
    /\ \E j \in 1..Len(documents) : Cardinality(Range(documents[j].tokens)) = 2

-----------------------------------------------------------------------------
\* C12: search returns documents ordered by non-increasing accumulated score, cut to
\* top_k, and among documents of equal score the one added to the index earlier
\* comes first.

\* the position at which add_document stored the document
InsertedAt(id) == CHOOSE j \in 1..Len(documents) : documents[j].id = id

\* the stored documents that hold at least one token of the query
Matching(query) ==
    {documents[j].id : j \in {k \in 1..Len(documents) :
        \E q \in Range(Tokenize(query)) : Count(documents[k].tokens, q) > 0}}

C12_SortedCutTiesByInsertion ==
    search_out.state = "returned" =>
        LET res == search_out.results
        IN  /\ \A j \in 1..(Len(res) - 1) : res[j].score >= res[j + 1].score
            /\ Len(res) = Min(search_top_k, Cardinality(Matching(search_query)))
            /\ \A j, k \in 1..Len(res) :
                  (j < k /\ res[j].score = res[k].score)
                      => InsertedAt(res[j].id) < InsertedAt(res[k].id)

-----------------------------------------------------------------------------
\* C13: on an index no document is added to, a call of search with the query and top_k
\* of the call kept before gives the result of that call, scores and order, whatever
\* calls of search were made in between: search leaves the index, the posting sets and
\* their iteration order as they were
C13_RepeatedSearchSameResults ==
    [][(/\ search_out.state = "returned"
        /\ search_out'.state # "none"
        /\ search_query' = search_query
        /\ search_top_k' = search_top_k
        /\ documents' = documents)
       => search_out' = search_out]_vars

\* a query asked again with a top_k that cuts the list between two documents of equal
\* score, so that the one returned is the one the posting set yields first
C13_Witness ==
    /\ search_repeat
    /\ search_out.state = "returned"
    /\ Len(search_out.results) = search_top_k
    /\ LET full == Search(Index, hash_order, search_query, N).results
       IN  /\ Len(full) > search_top_k
           /\ full[search_top_k].score = full[search_top_k + 1].score

\* C15: after construction of the retriever, no search or retrieve call changes the
\* sparse index: documents, doc_lengths, doc_freqs, inverted_index, N and avg_doc_length
\* stay as they are, also for queries whose tokens are absent from the corpus.
C15_ServingLeavesIndexUnchanged ==
    [][bu_pc = "ready" =>
          /\ documents' = documents
          /\ doc_lengths' = doc_lengths
          /\ doc_freqs' = doc_freqs
          /\ inverted_index' = inverted_index
          /\ N' = N
          /\ avg_doc_length' = avg_doc_length]_vars

\* a non-empty index after a search whose only token no document holds
C15_Witness ==
    /\ bu_pc = "ready"
    /\ N > 0
    /\ search_out.state = "returned"
    /\ Tokenize(search_query) # <<>>
    /\ \A j \in 1..Len(Tokenize(search_query)) :
          Tokenize(search_query)[j] \notin DOMAIN inverted_index

-----------------------------------------------------------------------------
\* C14: of two indexed documents that are identical except that one holds a query
\* term m > 1 times and the other holds it once, a search for that term ranks the
\* document with m occurrences strictly above the other, with a strictly higher score
\* (k1 = 1.5, b = 0.75).

\* the tokens of a document without the occurrences of one token
RECURSIVE Without(_, _)
Without(tokens, tok) ==
    IF tokens = <<>> THEN <<>>
    ELSE IF Head(tokens) = tok THEN Without(Tail(tokens), tok)
         ELSE <<Head(tokens)>> \o Without(Tail(tokens), tok)

\* the place of a document in the results of the last search, 0 when it is not there
ResultPlace(id) ==
    IF \E j \in 1..Len(search_out.results) : search_out.results[j].id = id
    THEN CHOOSE j \in 1..Len(search_out.results) : search_out.results[j].id = id
    ELSE 0

\* pairs (once, many) of stored documents that differ only in how often they hold tok
TfPairs(tok) ==
    {pair \in (1..Len(documents)) \X (1..Len(documents)) :
        /\ Count(documents[pair[1]].tokens, tok) = 1
        /\ Count(documents[pair[2]].tokens, tok) > 1
        /\ Without(documents[pair[1]].tokens, tok) = Without(documents[pair[2]].tokens, tok)}

C14_MoreOccurrencesRankHigher ==
    (search_out.state = "returned" /\ Len(Tokenize(search_query)) = 1) =>
        \A pair \in TfPairs(Tokenize(search_query)[1]) :
            LET once == ResultPlace(documents[pair[1]].id)
                many == ResultPlace(documents[pair[2]].id)
            IN  /\ Len(search_out.results) = Min(search_top_k, doc_freqs[Tokenize(search_query)[1]])
                /\ once # 0 =>
                      /\ many # 0
                      /\ many < once
                      /\ search_out.results[many].score > search_out.results[once].score

\* "a b" and "a b a" both indexed and both returned by a search for "a", in an
\* index where the set of the term yields the document with one occurrence first
C14_Witness ==
    /\ search_out.state = "returned"
    /\ Len(Tokenize(search_query)) = 1
    /\ \E pair \in TfPairs(Tokenize(search_query)[1]) :
          /\ Len(documents[pair[1]].tokens) = 2
          /\ ResultPlace(documents[pair[1]].id) # 0
          /\ ResultPlace(documents[pair[2]].id) # 0
          /\ LET order == hash_order[Tokenize(search_query)[1]]
             IN  \E j, k \in 1..Len(order) :
                    /\ j < k
                    /\ order[j] = documents[pair[1]].id
                    /\ order[k] = documents[pair[2]].id

-----------------------------------------------------------------------------
\* C17: rerank called with 0 or 1 candidates returns at once without invoking the
\* oracle: the empty list for 0 candidates, the single candidate, unchanged, for 1.
C17_DegenerateInputReturnsAtOnce ==
    Len(candidates) <= 1 =>
        /\ rr_pc \in {"idle", "done"}
        /\ oracle_calls = 0
        /\ last_cmp = NoCmp
        /\ rr_pc = "done" =>
              /\ Len(scored) = Len(candidates)
              /\ \A j \in 1..Len(scored) : scored[j].candidate = candidates[j]

\* a call with one candidate that returned it
C17_Witness ==
    /\ rr_pc = "done"
    /\ Len(candidates) = 1
    /\ max_candidates = DefaultMaxCandidates
    /\ scored = <<[candidate |-> candidates[1], score |-> Frac(TopScore, 1)]>>

\* C18: when rerank is given more than max_candidates candidates, only the first
\* max_candidates of the input are considered: at every point of every pass the
\* working list is a permutation of exactly those, and no candidate from beyond the cap
\* is in the output.
C18_WorkingListIsCappedPermutation ==
    (Len(candidates) > max_candidates /\ rr_pc \in {"pass", "score", "done"}) =>
        /\ Len(ranked) = max_candidates
        /\ Range(ranked) = Range(Take(candidates, max_candidates))
        /\ \A j, k \in 1..Len(ranked) : ranked[j] = ranked[k] => j = k
        /\ \A j \in 1..Len(scored) :
              \A k \in (max_candidates + 1)..Len(candidates) : scored[j].candidate # candidates[k]

\* the second pass of a call on four candidates capped to three, after a swap
C18_Witness ==
    /\ rr_pc = "pass"
    /\ pass_num = 1
    /\ Len(candidates) = 4
    /\ max_candidates = 3
    /\ ranked # Take(candidates, max_candidates)

\* C19: with an oracle that always prefers candidates of one category to those of
\* another and declares no swap otherwise, every pair of candidates that is in the
\* preferred relative order in the input keeps that order in the output of rerank,
\* after any number of passes.

\* the place of a candidate in a list, 0 when it is not there
PlaceIn(list, c) ==
    IF \E j \in 1..Len(list) : list[j] = c THEN CHOOSE j \in 1..Len(list) : list[j] = c ELSE 0

\* the working list, or the returned candidates once rerank is done
CurrentOrder ==
    IF rr_pc = "done" THEN [j \in 1..Len(scored) |-> scored[j].candidate] ELSE ranked

C19_PreferredPairsKeepOrder ==
    (rr_pc \in {"pass", "score", "done"} /\ Len(candidates) >= 2) =>
        \A x, y \in Range(Take(candidates, max_candidates)) :
            (/\ Category(x) = "database"
             /\ Category(y) = "compute"
             /\ PlaceIn(candidates, x) < PlaceIn(candidates, y))
            => /\ PlaceIn(CurrentOrder, x) # 0
               /\ PlaceIn(CurrentOrder, x) < PlaceIn(CurrentOrder, y)

\* three passes over compute, database, compute, database: the first database was in
\* front of the last compute service and still is, and the databases moved up
C19_Witness ==
    /\ rr_pc = "done"
    /\ pass_num = MaxPasses
    /\ candidates = <<1, 2, 3, 4>>
    /\ max_candidates = DefaultMaxCandidates
    /\ CurrentOrder = <<2, 4, 1, 3>>

-----------------------------------------------------------------------------
\* C16: during hydration a fetch that raises or returns no point for one fused id skips
\* only that id: retrieve does not raise and returns one candidate for every other
\* fused id whose fetch succeeded, in the fused order, so the returned list is ordered
\* by non-increasing fusion_score.

\* the items whose fetch found a point, as candidates, in the order of the items
RECURSIVE Hydrated(_, _)
Hydrated(items, log) ==
    IF items = <<>> \/ log = <<>> THEN <<>>
    ELSE (IF Head(log) = "found"
          THEN <<[id |-> Head(items).id, fusion_score |-> Head(items).score]>>
          ELSE <<>>) \o Hydrated(Tail(items), Tail(log))

C16_FailedFetchSkipsOnlyThatId ==
    rt_pc \in {"fetch", "returned"} =>
        /\ Len(fetch_log) = fetch_pos
        /\ fetch_pos <= Len(fused_results)
        /\ rt_pc = "returned" => fetch_pos = Len(fused_results)
        /\ retrieved = Hydrated(fused_results, fetch_log)
        /\ \A j \in 1..(Len(retrieved) - 1) :
              ~FracLt(retrieved[j].fusion_score, retrieved[j + 1].fusion_score)

\* three fused ids, the fetch of the second failed, the other two returned in order
C16_Witness ==
    /\ rt_pc = "returned"
    /\ Len(fused_results) = 3
    /\ fetch_log = <<"found", "skipped", "found">>
    /\ Len(retrieved) = 2
    /\ retrieved[1].id = fused_results[1].id
    /\ retrieved[2].id = fused_results[3].id
    /\ FracLt(retrieved[2].fusion_score, retrieved[1].fusion_score)

\* C20: when dense search and sparse search both return nothing, retrieve returns the
\* empty candidate list without raising, and recommend returns a result with no
\* recommendations and the "broaden your search" summary without invoking the
\* reranker or the scorer.
C20_NothingFoundGivesEmptyResult ==
    (dense_results = <<>> /\ sparse_results = <<>>) =>
        /\ rt_pc \in {"fetch", "returned"} =>
              fused_results = <<>> /\ retrieved = <<>> /\ fetch_log = <<>>
        /\ rc_pc = "done" =>
              /\ rec_result.state = "returned"
              /\ rec_result.recommendations = <<>>
              /\ rec_result.summary = BroadenSummary
              /\ rec_result.total_candidates_retrieved = 0
              /\ stages_run = {}

\* a query no document matches on a non-empty collection, no dense hit, empty result
C20_Witness ==
    /\ rc_pc = "done"
    /\ N > 0
    /\ search_out.state = "returned"
    /\ dense_results = <<>>
    /\ sparse_results = <<>>
    /\ rec_result.recommendations = <<>>
    /\ rec_result.summary = BroadenSummary

-----------------------------------------------------------------------------
\* C21: every rerank call that reaches the pass loop performs exactly
\* min(top_k_results, 3) passes, where top_k_results is the configured value in effect
\* for that query, also when recommend(query, top_k) has overridden top_k_results after
\* the reranker was constructed.
C21_PassesFollowTopKInEffect ==
    (/\ rc_pc = "done"
     /\ "reranker" \in stages_run
     /\ rec_result.total_candidates_reranked >= 2)
    => passes_run = Min(top_k_results, MaxPasses)

\* C22: within each pass of rerank the oracle is called for the positions
\* i = n-1, n-2, ..., 1 in that strictly decreasing order, each call comparing the item
\* currently at i-1 (as A) with the item currently at i (as B); the swap one comparison
\* decides is applied before the next comparison is issued, and a pass never starts
\* before the pass before it has finished.
C22_BackToFrontOneAtATime ==
    [][oracle_calls' = oracle_calls + 1 =>
          LET c == last_cmp'
          IN  /\ c.at \in 1..(Len(ranked) - 1)
              /\ c.a = ranked[c.at]
              /\ c.b = ranked[c.at + 1]
              /\ IF last_cmp = NoCmp
                 THEN c.pass = 0 /\ c.at = Len(ranked) - 1
                 ELSE IF c.pass = last_cmp.pass
                 THEN c.at = last_cmp.at - 1
                 ELSE c.pass = last_cmp.pass + 1 /\ last_cmp.at = 1 /\ c.at = Len(ranked) - 1
              /\ Len(ranked') = Len(ranked)
              /\ \A j \in 1..Len(ranked) :
                    ranked'[j] = IF c.winner = "B" /\ j = c.at THEN c.b
                                 ELSE IF c.winner = "B" /\ j = c.at + 1 THEN c.a
                                 ELSE ranked[j]
      ]_vars

\* the first comparison of the second pass over four candidates, at the back again,
\* on a list the first pass has changed
C22_Witness ==
    /\ rr_pc = "pass"
    /\ Len(ranked) = 4
    /\ last_cmp.pass = 1
    /\ last_cmp.at = 3
    /\ oracle_calls = 4
    /\ ranked # candidates

\* C23: for a reranked list of n >= 2 candidates the relevance score at the 0-based
\* position i equals 10 - 9*i/(n-1): the first candidate gets 10, the last gets 1, the
\* scores fall strictly with the position, and they depend on the position only, not
\* on any answer of the oracle.
C23_ScoreIsLinearInPosition ==
    (rr_pc = "done" /\ Len(scored) >= 2) =>
        LET n == Len(scored)
        IN  /\ \A j \in 1..n :
                  FracEq(scored[j].score, Frac(10 * (n - 1) - 9 * (j - 1), n - 1))
            /\ FracEq(scored[1].score, Frac(10, 1))
            /\ FracEq(scored[n].score, Frac(1, 1))
            /\ \A j \in 1..(n - 1) : FracLt(scored[j + 1].score, scored[j].score)

\* four candidates reordered by the oracle and scored 10, 7, 4, 1
C23_Witness ==
    /\ rr_pc = "done"
    /\ Len(scored) = 4
    /\ oracle_calls > 0
    /\ [j \in 1..4 |-> scored[j].candidate] # candidates
    /\ FracEq(scored[2].score, Frac(7, 1))
    /\ FracEq(scored[3].score, Frac(4, 1))

\* C27: rerank never modifies the candidate list passed to it: at every step of the
\* call and after it returns, the caller's list has the same elements in the same order
\* as before the call, whatever swaps were made on the working copy.
C27_CallerListUntouched == [][candidates' = candidates]_vars

\* a call on 1, 2, 3, 4 that returned another order while the caller's list is as it was
C27_Witness ==
    /\ rr_pc = "done"
    /\ ranked_obj = "copy"
    /\ candidates = <<1, 2, 3, 4>>
    /\ max_candidates = DefaultMaxCandidates
    /\ Len(scored) = 4
    /\ scored[1].candidate = 4
    /\ ranked # candidates

\* C26: when a pipeline-level timeout or cancellation occurs in the middle of rerank,
\* rerank stops and returns the ordering reached so far: a permutation of the candidates
\* that includes every swap already applied in the completed passes and in the current
\* pass up to the point of the cancellation.
C26_CancelReturnsOrderingSoFar ==
    last_cmp.outcome.kind = "cancel" =>
        /\ rr_pc = "done"
        /\ [j \in 1..Len(scored) |-> scored[j].candidate] = ranked

\* C25: against a store whose scroll returns every point of the collection exactly once
\* across its pages and signals the end with a null next offset or an empty page, the
\* construction of the index terminates, and the index then holds exactly one document
\* per point id of the collection (N equals the collection size), each under the string
\* form of its id. Termination comes with a bound: one scroll call per page of the
\* collection and at most one more.
C25_FullScrollBuildsFullIndex ==
    <>[](/\ bu_pc = "ready"
         /\ ~scroll_failed
         /\ N = Len(store_points)
         /\ DocIdList = FirstPointIds(Len(store_points))
         /\ pages_done <= ((Len(store_points) + ScrollLimit - 1) \div ScrollLimit) + 1)

\* three points scrolled in two pages and a third, empty page; all three indexed
C25_Witness ==
    /\ bu_pc = "ready"
    /\ Len(store_points) = 3
    /\ pages_done = 3
    /\ N = 3
    /\ DocIdList = <<IdStr(store_points[1].id), IdStr(store_points[2].id), IdStr(store_points[3].id)>>

\* C29: if the embedding call or the vector-store search raises during retrieve,
\* retrieve does not raise: the dense result list is taken as empty, and the candidates
\* returned are exactly the hydrated fusion of the sparse results alone, in the rank
\* order of the sparse search.
C29_DenseFailureLeavesSparseOnly ==
    dense_failed =>
        /\ rt_pc \in {"sparse", "fuse", "fetch", "returned"}
        /\ dense_results = <<>>
        /\ rt_pc \in {"fetch", "returned"} =>
              IdList(fused_results) = IdList(Take(sparse_results, fusion_top_k))
        /\ rt_pc = "returned" =>
              IdList(retrieved) = IdList(Hydrated(Take(sparse_results, fusion_top_k), fetch_log))

\* the dense search failed, the sparse search found three documents, and retrieve
\* returned the first and the third of them, the fetch of the second having failed
C29_Witness ==
    /\ dense_failed
    /\ rt_pc = "returned"
    /\ Len(sparse_results) = 3
    /\ fetch_log = <<"found", "skipped", "found">>
    /\ IdList(retrieved) = <<sparse_results[1].id, sparse_results[3].id>>

\* C30: for every recommend call with positive top_k_results, fusion_top_k and
\* max_candidates the sizes of the stages are bounded and do not grow: candidates
\* retrieved <= fusion_top_k, candidates reranked <= candidates retrieved, final
\* recommendations <= min(candidates reranked, top_k_results), and the recommendations
\* carry the ranks 1, 2, ... in list order.
C30_StageSizesDoNotGrow ==
    /\ rt_pc \in {"fetch", "returned"} => Len(retrieved) <= fusion_top_k
    /\ (rc_pc = "done" /\ rec_result.state = "returned") =>
          /\ rec_result.total_candidates_retrieved <= fusion_top_k
          /\ rec_result.total_candidates_reranked <= rec_result.total_candidates_retrieved
          /\ Len(rec_result.recommendations)
                <= Min(rec_result.total_candidates_reranked, top_k_results)
          /\ \A j \in 1..Len(rec_result.recommendations) :
                rec_result.recommendations[j].rank = j

\* three fused ids cut to two candidates, both reranked, one recommendation of rank 1
C30_Witness ==
    /\ rc_pc = "done"
    /\ Len(fused_scores) = 3
    /\ fusion_top_k = 2
    /\ rec_result.total_candidates_retrieved = 2
    /\ rec_result.total_candidates_reranked = 2
    /\ top_k_results = 1
    /\ Len(rec_result.recommendations) = 1
    /\ rec_result.recommendations[1].rank = 1

\* C28: recommend(query, top_k) with a non-zero top_k writes top_k into the shared
\* pipeline configuration, and that value stays in effect for every later recommend
\* call that passes no top_k (the scorer then cuts to it); a top_k of 0 or None leaves
\* the configuration as it is. No other step of a call changes the configuration.
C28_TopKOverridePersists ==
    [][/\ calls_made' = calls_made + 1 =>
             top_k_results' = IF rc_top_k' # 0 THEN rc_top_k' ELSE top_k_results
       /\ calls_made' = calls_made => top_k_results' = top_k_results
       /\ (rc_pc' = "done" /\ "scorer" \in stages_run') =>
             Len(rec_result'.recommendations)
                = Min(rec_result'.total_candidates_reranked, top_k_results')
      ]_vars

\* a second call without top_k, after a first call with top_k = 1 on a pipeline
\* configured with 5: two candidates reranked, one recommendation
C28_Witness ==
    /\ calls_made = 2
    /\ rc_top_k = 0
    /\ top_k_results = 1
    /\ rc_pc = "done"
    /\ "scorer" \in stages_run
    /\ rec_result.total_candidates_reranked >= 2
    /\ Len(rec_result.recommendations) = 1

\* C24: in retrieve the provider/category filter is built if and only if
\* preferred_providers or service_categories is non-empty, and it is applied to the
\* dense search only: the sparse search always runs over the whole index with no
\* filter, so retrieve can return a candidate outside the requested providers or
\* categories when the sparse index matches it.

\* the payload of the point a result or candidate names
PayloadOf(item) == store_points[PointOf(item.id)].payload

C24_FilterOnDenseSearchOnly ==
    rt_pc \in {"sparse", "fuse", "fetch", "returned"} =>
        /\ rt_filters.built <=> (\/ requirements.preferred_providers # {}
                                 \/ requirements.service_categories # {})
        /\ \A j \in 1..Len(dense_results) :
              /\ requirements.preferred_providers # {} =>
                    PayloadOf(dense_results[j]).provider \in requirements.preferred_providers
              /\ requirements.service_categories # {} =>
                    PayloadOf(dense_results[j]).category \in requirements.service_categories
        /\ rt_pc # "sparse" => Ids(sparse_results) = Matching(rt_query)

\* a query for provider x answered with a dense hit of provider x and, from the sparse
\* search, a candidate of another provider
C24_Witness ==
    /\ rt_pc = "returned"
    /\ rt_filters.built
    /\ requirements.preferred_providers = {<<"x">>}
    /\ dense_results # <<>>
    /\ \E j \in 1..Len(retrieved) :
          PayloadOf(retrieved[j]).provider \notin requirements.preferred_providers

====
